---------------------------- MODULE Spec2Model ----------------------------
(***************************************************************************)
(* Model of the web-smartcard-demo: the APDU codec (apdu.ts), the BER-TLV  *)
(* codec (ber.ts), the PIV object retrieval (index.ts: fetchObject,        *)
(* selectPIVApplication, _internalReadCertificateData), the UI handlers    *)
(* and the reader tracking loop (index.ts).                                *)
(*                                                                         *)
(* Byte buffers (ArrayBuffer, Uint8Array) are kept run-length encoded: a   *)
(* buffer is a sequence of runs <<byte, count>>, count > 0, adjacent runs  *)
(* holding different bytes, so that equal buffers are equal values and the *)
(* 70000-byte working buffer of fetchObject stays small.  All offsets are  *)
(* 0-based, as in the source.                                              *)
(***************************************************************************)
EXTENDS Integers, Sequences, FiniteSets, TLC

--------------------------------------------------------------------------
(* Byte buffers *)

Max(a, b) == IF a > b THEN a ELSE b
Min(a, b) == IF a < b THEN a ELSE b

\* new Uint8Array(n) filled with byte b
Fill(b, n) == IF n <= 0 THEN << >> ELSE << <<b, n>> >>

\* concatenation of two buffers
BCat(a, b) ==
  IF a = << >> THEN b
  ELSE IF b = << >> THEN a
  ELSE IF a[Len(a)][1] = b[1][1]
       THEN SubSeq(a, 1, Len(a) - 1)
              \o << <<b[1][1], a[Len(a)][2] + b[1][2]>> >>
              \o SubSeq(b, 2, Len(b))
       ELSE a \o b

\* the buffer holding the bytes of the plain sequence s
RECURSIVE Lit(_)
Lit(s) == IF s = << >> THEN << >>
          ELSE BCat(<< <<s[1], 1>> >>, Lit(Tail(s)))

\* byteLength
RECURSIVE BLen(_)
BLen(a) == IF a = << >> THEN 0 ELSE a[1][2] + BLen(Tail(a))

\* a[i]; callers test 0 <= i < BLen(a) first (JavaScript reads undefined there)
RECURSIVE BAt(_, _)
BAt(a, i) == IF i < a[1][2] THEN a[1][1] ELSE BAt(Tail(a), i - a[1][2])

\* the first n bytes of a (0 <= n)
RECURSIVE BTake(_, _)
BTake(a, n) ==
  IF n <= 0 \/ a = << >> THEN << >>
  ELSE IF n < a[1][2] THEN << <<a[1][1], n>> >>
  ELSE << a[1] >> \o BTake(Tail(a), n - a[1][2])

\* a without its first n bytes (0 <= n)
RECURSIVE BDrop(_, _)
BDrop(a, n) ==
  IF a = << >> THEN << >>
  ELSE IF n <= 0 THEN a
  ELSE IF n < a[1][2] THEN << <<a[1][1], a[1][2] - n>> >> \o Tail(a)
  ELSE BDrop(Tail(a), n - a[1][2])

\* ArrayBuffer.prototype.slice / TypedArray.prototype.slice: a negative index
\* counts from the end, both are clamped, an empty range gives an empty buffer
slice(a, start, end) ==
  LET len == BLen(a)
      first == IF start < 0 THEN Max(len + start, 0) ELSE Min(start, len)
      final == IF end < 0 THEN Max(len + end, 0) ELSE Min(end, len)
  IN  BTake(BDrop(a, first), Max(final - first, 0))

\* TypedArray.prototype.set(src, offset), offset + src.length <= a.length
set(a, src, offset) ==
  BCat(BCat(BTake(a, offset), src), BDrop(a, offset + BLen(src)))

--------------------------------------------------------------------------
(* 32-bit integer operators of JavaScript, on bytes and int32 values *)

RECURSIVE OrByte(_, _)
OrByte(x, y) ==
  IF x = 0 THEN y
  ELSE IF y = 0 THEN x
  ELSE (IF x % 2 = 1 \/ y % 2 = 1 THEN 1 ELSE 0)
         + 2 * OrByte(x \div 2, y \div 2)

\* the four bytes of the int32 n, least significant first
Lanes(n) ==
  LET top == n \div 16777216
      low == n % 16777216
  IN  << low % 256, (low \div 256) % 256, low \div 65536, top % 256 >>

\* the int32 whose bytes are l (two's complement)
FromLanes(l) ==
  (IF l[4] >= 128 THEN l[4] - 256 ELSE l[4]) * 16777216
    + l[3] * 65536 + l[2] * 256 + l[1]

\* n | m on int32
BitOr(n, m) ==
  LET a == Lanes(n)
      b == Lanes(m)
  IN  FromLanes([k \in 1..4 |-> OrByte(a[k], b[k])])

\* byte << count: the count is taken modulo 32, the result is an int32
ShiftLeft(byte, count) ==
  LET c == count % 32
  IN  FromLanes([k \in 1..4 |->
        IF 8 * (k - 1) <= c /\ c < 8 * k
        THEN (byte * 2 ^ (c - 8 * (k - 1))) % 256
        ELSE IF 8 * (k - 2) <= c /\ c < 8 * (k - 1)
        THEN (byte * 2 ^ (c - 8 * (k - 2))) \div 256
        ELSE 0])

\* value >> count for an int32 value and 0 <= count < 32 (sign-propagating)
ShiftRight(value, count) == value \div (2 ^ count)

--------------------------------------------------------------------------
(* util.ts *)

\* assert(condition, msg): throws Error(msg) when the condition is false
Throw(msg) == [ok |-> FALSE, error |-> msg]

--------------------------------------------------------------------------
(* ber.ts: BER-TLV codec *)

RECURSIVE numberByteSize(_)
numberByteSize(value) ==
  IF value > 0 THEN 1 + numberByteSize(ShiftRight(value, 8)) ELSE 0

\* the number stored low byte first: C26_FirstCommands distinguishes it from
\* serializeNumber
serializeNumberLittleEndian(bytes, bytesOffset, n) ==
  LET size == numberByteSize(n)
      digits == [k \in 1..size |-> ShiftRight(n, 8 * (k - 1)) % 256]
      room == BLen(bytes) - bytesOffset
  IN  set(bytes, BTake(Lit(digits), room), bytesOffset)

\* the bytes serializeNumber stores from bytesOffset on; a store past the end
\* of a typed array is dropped
serializeNumber(bytes, bytesOffset, n) ==
  LET size == numberByteSize(n)
      digits == [k \in 1..size |-> ShiftRight(n, 8 * (size - k)) % 256]
      room == BLen(bytes) - bytesOffset
  IN  set(bytes, BTake(Lit(digits), room), bytesOffset)

RECURSIVE deserializeDigits(_, _, _, _, _)
deserializeDigits(bytes, bytesOffset, size, currentDigit, n) ==
  IF currentDigit > 0
  THEN deserializeDigits(bytes, bytesOffset, size, currentDigit - 1,
         BitOr(n, ShiftLeft(BAt(bytes, bytesOffset + (size - currentDigit)),
                            8 * (currentDigit - 1))))
  ELSE n

deserializeNumber(bytes, bytesOffset, size) ==
  IF ~(bytesOffset >= 0 /\ bytesOffset < BLen(bytes))
  THEN Throw("deserializeNumber: invalid bytesOffset")
  ELSE IF ~(size > 0 /\ size <= BLen(bytes) - bytesOffset)
  THEN Throw("deserializeNumber: invalid numberByteSize")
  ELSE [ok |-> TRUE, n |-> deserializeDigits(bytes, bytesOffset, size, size, 0)]

\* bytes[i] is undefined outside the array: both comparisons are then false
\* and undefined & 127 is 0
Defined(bytes, i) == 0 <= i /\ i < BLen(bytes)

readLength(bytes, bytesOffset) ==
  IF Defined(bytes, bytesOffset) /\ BAt(bytes, bytesOffset) < 128
  THEN [ok |-> TRUE, length |-> BAt(bytes, bytesOffset),
        valueOffset |-> bytesOffset + 1]
  ELSE IF Defined(bytes, bytesOffset) /\ BAt(bytes, bytesOffset) = 128
  THEN [ok |-> TRUE, length |-> BLen(bytes) - (bytesOffset + 1) - 2,
        valueOffset |-> bytesOffset + 1]
  ELSE LET size == IF Defined(bytes, bytesOffset)
                   THEN BAt(bytes, bytesOffset) % 128 ELSE 0
           i == bytesOffset + 1
           number == deserializeNumber(bytes, i, size)
       IN  IF number.ok
           THEN [ok |-> TRUE, length |-> number.n, valueOffset |-> i + size]
           ELSE number

\* The scan of getValue from offset i.  The scan is deterministic, so coming
\* back to an offset already visited is a loop that never ends.
RECURSIVE getValueFrom(_, _, _, _)
getValueFrom(buffer, tag, i, visited) ==
  IF ~(i < BLen(buffer))
  THEN Throw("Could not find tag")
  ELSE IF i \in visited
  THEN [ok |-> FALSE, error |-> "never returns"]
  ELSE LET berLength == readLength(buffer, i + 1)
           found == Defined(buffer, i) /\ BAt(buffer, i) = tag
       IN  IF ~berLength.ok THEN berLength
           ELSE IF ~found
           THEN getValueFrom(buffer, tag,
                             berLength.valueOffset + berLength.length,
                             visited \cup {i})
           ELSE [ok |-> TRUE,
                 value |-> slice(buffer, berLength.valueOffset,
                                 berLength.valueOffset + berLength.length)]

\* a scan that looks for the tag at every byte instead of at the entries:
\* C25_FirstEntry distinguishes it from getValue
RECURSIVE scanBytesFrom(_, _, _)
scanBytesFrom(buffer, tag, i) ==
  IF ~(i < BLen(buffer)) THEN Throw("Could not find tag")
  ELSE IF BAt(buffer, i) # tag THEN scanBytesFrom(buffer, tag, i + 1)
  ELSE LET berLength == readLength(buffer, i + 1) IN
       IF ~berLength.ok THEN berLength
       ELSE [ok |-> TRUE,
             value |-> slice(buffer, berLength.valueOffset,
                             berLength.valueOffset + berLength.length)]

getValueAtAnyByte(buffer, tag) == scanBytesFrom(buffer, tag, 0)

getValue(buffer, tag) == getValueFrom(buffer, tag, 0, {})

--------------------------------------------------------------------------
(* apdu.ts: APDU codec *)

Select == 164            \* Instruction.Select = 0xA4
GetData == 203           \* Instruction.GetData = 0xCB
GetResponse == 192       \* Instruction.GetResponse = 0xC0
SelectDFByName == 4      \* SelectP1.SelectDFByName
FirstOrOnlyOccurrence == 0
Unused == 0              \* GetResponseP.Unused
CurrentDF == 16383       \* GetDataP.CurrentDF = 0x3FFF
Success == 36864         \* SW.Success = 0x9000
BytesStillAvailable == 97 \* SW1.BytesStillAvailable = 0x61
TagList == 92            \* 0x5C
DiscretionaryData == 83  \* 0x53

\* the status bytes taken from the front of the buffer:
\* C22_Deserialized distinguishes it from deserializeResponse
deserializeResponseLeadingStatus(buffer) ==
  LET n == BLen(buffer) IN
  IF n < 2 THEN Throw("Response APDU is too short")
  ELSE LET sw1 == BAt(buffer, 0)
           sw2 == BAt(buffer, 1)
       IN  IF n = 2
           THEN [ok |-> TRUE, sw |-> sw1 * 256 + sw2, sw1 |-> sw1, sw2 |-> sw2]
           ELSE [ok |-> TRUE, data |-> slice(buffer, 2, n),
                 sw |-> sw1 * 256 + sw2, sw1 |-> sw1, sw2 |-> sw2]

\* A response APDU: data is absent when the buffer holds the status bytes only
deserializeResponse(buffer) ==
  LET n == BLen(buffer) IN
  IF n < 2 THEN Throw("Response APDU is too short")
  ELSE LET sw1 == BAt(buffer, n - 2)
           sw2 == BAt(buffer, n - 1)
       IN  IF n = 2
           THEN [ok |-> TRUE, sw |-> sw1 * 256 + sw2, sw1 |-> sw1, sw2 |-> sw2]
           ELSE [ok |-> TRUE, data |-> slice(buffer, 0, n - 2),
                 sw |-> sw1 * 256 + sw2, sw1 |-> sw1, sw2 |-> sw2]

\* the 2-byte parameter stored low byte first: C20_Serialized distinguishes
\* it from serializeCommand
serializeCommandLittleEndian(apdu) ==
  LET hasData == "data" \in DOMAIN apdu
      hasNe == "ne" \in DOMAIN apdu
      apduSize == 4 + (IF hasData THEN 1 + BLen(apdu.data) ELSE 0)
                    + (IF hasNe THEN 1 ELSE 0)
      header == << apdu.cla % 256, apdu.ins % 256 >>
      params == IF "p1" \in DOMAIN apdu
                THEN << apdu.p1 % 256, apdu.p2 % 256 >>
                ELSE << apdu.p % 256, (apdu.p \div 256) % 256 >>
      body == IF hasData
              THEN BCat(Lit(<< BLen(apdu.data) % 256 >>), apdu.data)
              ELSE << >>
      le == IF hasNe THEN Lit(<< apdu.ne % 256 >>) ELSE << >>
      buffer == BCat(BCat(Lit(header \o params), body), le)
  IN  IF hasNe /\ apdu.ne = 0
      THEN Throw("Command Ne cannot be 0")
      ELSE IF BLen(buffer) # apduSize
      THEN Throw("serializeCommand: i, apduSize")
      ELSE [ok |-> TRUE, buffer |-> buffer]

\* Ne = 0 written as Le = 00: C33_NeZeroRejected distinguishes it from
\* serializeCommand
serializeCommandAnyNe(apdu) ==
  [ok |-> TRUE,
   buffer |->
     BCat(BCat(Lit(<< apdu.cla % 256, apdu.ins % 256 >>
                     \o (IF "p1" \in DOMAIN apdu
                         THEN << apdu.p1 % 256, apdu.p2 % 256 >>
                         ELSE << (apdu.p \div 256) % 256, apdu.p % 256 >>)),
               IF "data" \in DOMAIN apdu
               THEN BCat(Lit(<< BLen(apdu.data) % 256 >>), apdu.data)
               ELSE << >>),
          IF "ne" \in DOMAIN apdu THEN Lit(<< apdu.ne % 256 >>) ELSE << >>)]

\* A command is a record with cla, ins, either p1 and p2 or p, and optionally
\* data and ne.  DataView.setUint8 and setUint16 store the value modulo 2^8
\* and 2^16.
serializeCommand(apdu) ==
  LET hasData == "data" \in DOMAIN apdu
      hasNe == "ne" \in DOMAIN apdu
      apduSize == 4 + (IF hasData THEN 1 + BLen(apdu.data) ELSE 0)
                    + (IF hasNe THEN 1 ELSE 0)
      header == << apdu.cla % 256, apdu.ins % 256 >>
      params == IF "p1" \in DOMAIN apdu
                THEN << apdu.p1 % 256, apdu.p2 % 256 >>
                ELSE << (apdu.p \div 256) % 256, apdu.p % 256 >>
      body == IF hasData
              THEN BCat(Lit(<< BLen(apdu.data) % 256 >>), apdu.data)
              ELSE << >>
      le == IF hasNe THEN Lit(<< apdu.ne % 256 >>) ELSE << >>
      buffer == BCat(BCat(Lit(header \o params), body), le)
  IN  IF hasNe /\ apdu.ne = 0
      THEN Throw("Command Ne cannot be 0")
      ELSE IF BLen(buffer) # apduSize
      THEN Throw("serializeCommand: i, apduSize")
      ELSE [ok |-> TRUE, buffer |-> buffer]

--------------------------------------------------------------------------
(* piv.ts *)

AID == << 160, 0, 0, 3, 8 >>               \* A0 00 00 03 08
CertificateForCardAuthentication == 6275329 \* ObjectTag, 0x5FC101
Certificate == 112                          \* Tag.Certificate = 0x70

--------------------------------------------------------------------------
(* index.ts: PIV object retrieval *)

MAX_DATA_LENGTH == 70000

PNP_NOTIFICATION == "\\\\?PnP?\\Notification"
START_TRACKING_STRING == "Start tracking readers"
STOP_TRACKING_STRING == "Stop tracking readers"

\* an Error that carries a status word in its message
ThrowSW(msg, sw) == [ok |-> FALSE, error |-> msg, sw |-> sw]

\* the SELECT command of selectPIVApplication
selectPIVApp ==
  [cla |-> 0, ins |-> Select, p1 |-> SelectDFByName,
   p2 |-> FirstOrOnlyOccurrence, data |-> Lit(AID)]

\* a selection that accepts 0x61xx as well as 0x9000: C6_SelectFirst
\* distinguishes it from selectPIVApplication
selectAlsoContinuation(buffer) ==
  LET response == deserializeResponse(buffer) IN
  IF ~response.ok THEN response
  ELSE IF response.sw # 36864 /\ response.sw1 # 97
  THEN ThrowSW("Failed to select PIV application", response.sw)
  ELSE [ok |-> TRUE]

\* selectPIVApplication after its transmit resolved with buffer
selectPIVApplication(buffer) ==
  LET response == deserializeResponse(buffer) IN
  IF ~response.ok THEN response
  ELSE IF response.sw # Success
  THEN ThrowSW("Failed to select PIV application", response.sw)
  ELSE [ok |-> TRUE]

\* fetchObject up to its loop: the GET DATA command, the working buffer
fetchObjectBegin(objectTag) ==
  LET objectTagByteSize == numberByteSize(objectTag) IN
  IF ~(objectTagByteSize > 0 /\ objectTagByteSize <= 3)
  THEN Throw("Invalid PIV objectTag byte size")
  ELSE LET marked == set(Fill(0, objectTagByteSize + 2), Lit(<<TagList>>), 0)
           sized == set(marked, Lit(<<objectTagByteSize>>), 1)
           tagList == serializeNumber(sized, 2, objectTag)
       IN  [ok |-> TRUE,
            command |-> [cla |-> 0, ins |-> GetData, p |-> CurrentDF,
                         data |-> tagList],
            bytes |-> Fill(0, MAX_DATA_LENGTH),
            dataLength |-> 0]

\* a status word test that lets every status word through: C3_StatusError
\* distinguishes it from statusFailed
statusNeverFailed(response) == FALSE

\* a capacity test that refuses a total of exactly MAX_DATA_LENGTH: C4_Capacity
\* distinguishes it from tooLarge
tooLargeOrFull(dataLength, data) == dataLength + BLen(data) >= 70000

\* a parse step without the comparison of the BER span to dataLength:
\* C5_Parse distinguishes it from parseObject
parseObjectAnySpan(bytes, dataLength) ==
  IF dataLength < 2 THEN Throw("GET DATA response is too short")
  ELSE IF BAt(bytes, 0) # 83
  THEN Throw("Invalid GET DATA response from PIV app: not descretionary data")
  ELSE LET berLength == readLength(bytes, 1) IN
       IF ~berLength.ok THEN berLength
       ELSE [ok |-> TRUE,
             value |-> slice(bytes, berLength.valueOffset,
                             berLength.valueOffset + berLength.length)]

\* the status word test of the loop
statusFailed(response) ==
  response.sw # Success /\ response.sw1 # BytesStillAvailable

\* the capacity test of the loop
tooLarge(dataLength, data) == dataLength + BLen(data) > MAX_DATA_LENGTH

\* GET DATA issued again: C28_CommandSequence distinguishes it from
\* getResponseCommand
getDataAgain(response) ==
  [cla |-> 0, ins |-> GetData, p |-> Unused, ne |-> response.sw2]

\* the GET RESPONSE command issued after a response that is not the last
getResponseCommand(response) ==
  [cla |-> 0, ins |-> GetResponse, p |-> Unused, ne |-> response.sw2]

\* the parse step of fetchObject, after its loop
parseObject(bytes, dataLength) ==
  IF dataLength < 2 THEN Throw("GET DATA response is too short")
  ELSE IF BAt(bytes, 0) # DiscretionaryData
  THEN Throw("Invalid GET DATA response from PIV app: not descretionary data")
  ELSE LET berLength == readLength(bytes, 1) IN
       IF ~berLength.ok THEN berLength
       ELSE IF berLength.valueOffset + berLength.length # dataLength
       THEN Throw("Invalid GET DATA response from PIV app: bad BER encoding")
       ELSE [ok |-> TRUE,
             value |-> slice(bytes, berLength.valueOffset,
                             berLength.valueOffset + berLength.length)]

\* One turn of the loop of fetchObject, from the resolution of transmit with
\* buffer to the next transmit, the return or the throw.  The result has
\* next = "transmit" (with the command, the buffer and the length so far),
\* "return" (with the value) or "throw" (with the error).
fetchObjectLoop(bytes, dataLength, buffer) ==
  LET response == deserializeResponse(buffer) IN
  IF ~response.ok
  THEN [next |-> "throw", error |-> response,
        bytes |-> bytes, dataLength |-> dataLength]
  ELSE IF statusFailed(response)
  THEN [next |-> "throw",
        error |-> ThrowSW("Failed to fetch PIV object", response.sw),
        bytes |-> bytes, dataLength |-> dataLength]
  ELSE IF "data" \notin DOMAIN response
  THEN [next |-> "throw", error |-> Throw("GET DATA response has no data"),
        bytes |-> bytes, dataLength |-> dataLength]
  ELSE IF tooLarge(dataLength, response.data)
  THEN [next |-> "throw",
        error |-> Throw("GET DATA is larger than MAX_DATA_LENGTH bytes"),
        bytes |-> bytes, dataLength |-> dataLength]
  ELSE LET filled == set(bytes, response.data, dataLength)
           total == dataLength + BLen(response.data)
       IN  IF response.sw = Success
           THEN LET parsed == parseObject(filled, total) IN
                IF parsed.ok
                THEN [next |-> "return", value |-> parsed.value,
                      bytes |-> filled, dataLength |-> total]
                ELSE [next |-> "throw", error |-> parsed,
                      bytes |-> filled, dataLength |-> total]
           ELSE [next |-> "transmit", command |-> getResponseCommand(response),
                 bytes |-> filled, dataLength |-> total]

\* the value of the first entry of the object, whatever its tag:
\* C19_Certificate distinguishes it from certificateOf
certificateOfFirstEntry(certObject) ==
  IF BLen(certObject) = 0
  THEN Throw("Card does not have a X.509 Certificate for Card Authentication.")
  ELSE getValue(certObject, BAt(certObject, 0))

\* _internalReadCertificateData after fetchObject returned certObject
certificateOf(certObject) ==
  IF BLen(certObject) = 0
  THEN Throw("Card does not have a X.509 Certificate for Card Authentication.")
  ELSE getValue(certObject, Certificate)

--------------------------------------------------------------------------
(* index.ts: state of the page and of the host *)

VARIABLES
  readerNameToElements, \* Map: reader name -> the disabled flags of its buttons
  readerConnections,    \* Map: reader name -> connection
  connections,          \* the host's connections, in the order connect gave them
  acts,                 \* the handler activations, in the order they started
  clicks,               \* the number of clicks so far
  scardTrackingContext, \* 0 for undefined, else the context of the tracking
  readerTrackingAbortion, \* 0 for undefined, else the session whose blocking
                        \* getStatusChange holds the controller's signal
  trackReadersButton,   \* its innerText
  refreshReadersButton, \* its disabled flag
  readersListElement,   \* the message it shows besides the readers
  readers,              \* the readers the platform has
  sessions              \* the executions of startTrackingReaders, in order

\* the state of the reader tracking
track == << scardTrackingContext, readerTrackingAbortion, trackReadersButton,
            refreshReadersButton, readersListElement, readers, sessions >>

vars == << readerNameToElements, readerConnections, connections, acts, clicks,
           track >>

\* Map.delete
MapDelete(map, key) == [k \in DOMAIN map \ {key} |-> map[k]]

\* Map.set
MapSet(map, key, value) ==
  [k \in DOMAIN map \cup {key} |-> IF k = key THEN value ELSE map[k]]

\* a handler activation at its start; it keeps what it transmitted (sent) and
\* what transmit resolved with (got); a refresh keeps the names it fetched and
\* the known names its removal loop has still to visit
Activation(kind, readerName) ==
  [kind |-> kind, reader |-> readerName, pc |-> "start", connection |-> 0,
   transaction |-> "none", command |-> << >>, bytes |-> << >>,
   dataLength |-> 0, sent |-> << >>, got |-> << >>, object |-> << >>,
   result |-> << >>, disposition |-> "", errorMessage |-> "",
   cleaned |-> 0, fetched |-> {}, known |-> {}]

\* the activations with a transmit awaiting its response on connection c
Transmitting(c) ==
  {h \in DOMAIN acts : acts[h].connection = c /\ acts[h].pc \in {"select", "fetch"}}

\* buttons left as they are: C16_ButtonsFollowMap distinguishes it from
\* updateReaderUIState
buttonsLeftAsTheyAre(elements, conns, readerName) == elements

updateReaderUIState(elements, conns, readerName) ==
  IF readerName \notin DOMAIN elements THEN elements
  ELSE LET isConnected == readerName \in DOMAIN conns IN
       [elements EXCEPT ![readerName] =
          [connectDisabled |-> isConnected,
           disconnectDisabled |-> ~isConnected,
           readCertDisabled |-> ~isConnected]]

--------------------------------------------------------------------------
(* index.ts: the certificate read inside its transaction *)

\* the callback threw: startTransaction will reject with the error
Thrown(a, error) ==
  [a EXCEPT !.pc = "endTransaction", !.transaction = "threw", !.result = error]

\* the callback returned "reset" after storing the certificate
Returned(a, value) ==
  [a EXCEPT !.pc = "endTransaction", !.transaction = "returned",
            !.result = [ok |-> TRUE, value |-> value],
            !.disposition = "reset"]

\* scardConnection.transmit(apdu.serializeCommand(command)), awaited at pc
Transmit(a, command, pc) ==
  LET serialized == serializeCommand(command) IN
  IF serialized.ok
  THEN [a EXCEPT !.pc = pc, !.command = command,
                 !.sent = Append(@, serialized.buffer)]
  ELSE Thrown(a, serialized)

\* _internalReadCertificateData from the resolution of a transmit with buffer
\* to its next await, its return or its throw
readOnResponse(a, buffer) ==
  LET b == [a EXCEPT !.got = Append(@, buffer)] IN
  IF a.pc = "select"
  THEN LET selected == selectPIVApplication(buffer)
           begin == fetchObjectBegin(CertificateForCardAuthentication)
       IN  IF ~selected.ok THEN Thrown(b, selected)
           ELSE IF ~begin.ok THEN Thrown(b, begin)
           ELSE Transmit([b EXCEPT !.bytes = begin.bytes,
                                   !.dataLength = begin.dataLength],
                         begin.command, "fetch")
  ELSE LET turn == fetchObjectLoop(a.bytes, a.dataLength, buffer) IN
       IF turn.next = "throw"
       THEN Thrown([b EXCEPT !.bytes = turn.bytes,
                             !.dataLength = turn.dataLength,
                             !.object = turn.error], turn.error)
       ELSE IF turn.next = "transmit"
       THEN LET c == Transmit([b EXCEPT !.bytes = turn.bytes,
                                        !.dataLength = turn.dataLength],
                              turn.command, "fetch")
            IN  IF c.pc = "fetch" THEN c
                ELSE [c EXCEPT !.object = c.result]
       ELSE LET certificate == certificateOf(turn.value)
                c == [b EXCEPT !.bytes = turn.bytes,
                               !.dataLength = turn.dataLength,
                               !.object = [ok |-> TRUE, value |-> turn.value]]
            IN  IF certificate.ok THEN Returned(c, certificate.value)
                ELSE Thrown(c, certificate)

--------------------------------------------------------------------------
(* index.ts: handlers.  An action runs a handler from one await to the next *)

\* cleanupReaderConnectionAndUI(a.reader, ...) awaited by activation h, up to
\* its await of connection.disconnect(), or to its end when the reader has no
\* connection
CleanupAwaited(h, a) ==
  IF a.reader \in DOMAIN readerConnections
  THEN LET c == readerConnections[a.reader] IN
       /\ acts' = [acts EXCEPT ![h] = [a EXCEPT !.pc = "disconnect",
                                                !.cleaned = c]]
       /\ connections' = [connections EXCEPT ![c].disconnectCalled = TRUE]
       /\ UNCHANGED << readerNameToElements, readerConnections >>
  ELSE /\ acts' = [acts EXCEPT ![h] = [a EXCEPT !.pc = "done"]]
       /\ readerNameToElements' =
            updateReaderUIState(readerNameToElements, readerConnections,
                                a.reader)
       /\ UNCHANGED << connections, readerConnections >>

\* a cleanup that keeps the connection in the map when disconnect() rejects:
\* C17_DisconnectedAfter distinguishes it from DisconnectSettle
DisconnectSettleKeeping(h, resolved) ==
  /\ UNCHANGED track
  /\ acts[h].pc = "disconnect"
  /\ acts[h].kind # "refresh"
  /\ connections' = IF resolved
                    THEN [connections EXCEPT ![acts[h].cleaned].open = FALSE]
                    ELSE connections
  /\ readerConnections' = IF resolved
                          THEN MapDelete(readerConnections, acts[h].reader)
                          ELSE readerConnections
  /\ readerNameToElements' =
       updateReaderUIState(readerNameToElements, readerConnections',
                           acts[h].reader)
  /\ acts' = [acts EXCEPT ![h].pc = "done"]
  /\ UNCHANGED clicks

\* connection.disconnect() of a cleanup settled: the rest of
\* cleanupReaderConnectionAndUI and of the handler that awaited it
DisconnectSettle(h, resolved) ==
  /\ UNCHANGED track
  /\ acts[h].pc = "disconnect"
  /\ acts[h].kind # "refresh"
  /\ connections' = IF resolved
                    THEN [connections EXCEPT ![acts[h].cleaned].open = FALSE]
                    ELSE connections
  /\ readerConnections' = MapDelete(readerConnections, acts[h].reader)
  /\ readerNameToElements' =
       updateReaderUIState(readerNameToElements, readerConnections',
                           acts[h].reader)
  /\ acts' = [acts EXCEPT ![h].pc = "done"]
  /\ UNCHANGED clicks

\* click on "Read Certificate": handleReadCertificateCommand up to its await
\* of connection.startTransaction
ClickReadCertificate(readerName, limit) ==
  /\ UNCHANGED track
  /\ clicks < limit
  /\ readerName \in DOMAIN readerNameToElements
  /\ ~readerNameToElements[readerName].readCertDisabled
  /\ clicks' = clicks + 1
  /\ LET a == Activation("read", readerName) IN
     IF readerName \notin DOMAIN readerConnections
     THEN /\ acts' = Append(acts, [a EXCEPT !.pc = "done"])
          /\ readerNameToElements' =
               updateReaderUIState(readerNameToElements, readerConnections,
                                   readerName)
     ELSE /\ acts' = Append(acts,
                       [a EXCEPT !.pc = "startTransaction",
                                 !.transaction = "requested",
                                 !.connection = readerConnections[readerName]])
          /\ UNCHANGED readerNameToElements
  /\ UNCHANGED << readerConnections, connections >>

\* SELECT transmitted with no transaction begun: C8_InsideTransaction
\* distinguishes it from HostRunTransaction
TransmitOutsideTransaction(h) ==
  /\ UNCHANGED track
  /\ acts[h].pc = "startTransaction"
  /\ acts' = [acts EXCEPT ![h] = Transmit(@, selectPIVApp, "select")]
  /\ UNCHANGED << readerNameToElements, readerConnections, connections, clicks >>

\* the host starts the transaction and calls the callback, which runs to the
\* transmit of SELECT
HostRunTransaction(h) ==
  /\ UNCHANGED track
  /\ acts[h].pc = "startTransaction"
  /\ acts' = [acts EXCEPT ![h] =
                Transmit([@ EXCEPT !.transaction = "running"],
                         selectPIVApp, "select")]
  /\ UNCHANGED << readerNameToElements, readerConnections, connections, clicks >>

\* the host rejects startTransaction without calling the callback
HostRejectTransaction(h) ==
  /\ UNCHANGED track
  /\ acts[h].pc = "startTransaction"
  /\ CleanupAwaited(h, [acts[h] EXCEPT
                          !.transaction = "rejected",
                          !.result = Throw("startTransaction rejected"),
                          !.errorMessage = "Failed to read certificate"])
  /\ UNCHANGED clicks

\* transmit resolves with buffer
TransmitResolve(h, buffer) ==
  /\ UNCHANGED track
  /\ acts[h].pc \in {"select", "fetch"}
  /\ acts' = [acts EXCEPT ![h] = readOnResponse(@, buffer)]
  /\ UNCHANGED << readerNameToElements, readerConnections, connections, clicks >>

\* transmit rejects
TransmitReject(h) ==
  /\ UNCHANGED track
  /\ acts[h].pc \in {"select", "fetch"}
  /\ acts' = [acts EXCEPT ![h] = Thrown(@, Throw("transmit rejected"))]
  /\ UNCHANGED << readerNameToElements, readerConnections, connections, clicks >>

\* The host ends the transaction and settles startTransaction: it rejects
\* when the callback threw, and may reject when ending the transaction fails.
\* outcome "displayed": resolved, the certificate (or the note that it is
\* empty) is displayed.  outcome "undisplayable": resolved, and the
\* X509Certificate constructor throws on the bytes, into the catch block.
\* outcome "rejected": the catch block.
HostEndTransaction(h, outcome) ==
  /\ UNCHANGED track
  /\ acts[h].pc = "endTransaction"
  /\ outcome # "rejected" => acts[h].transaction = "returned"
  /\ outcome = "undisplayable" => BLen(acts[h].result.value) > 0
  /\ IF outcome = "displayed"
     THEN /\ acts' = [acts EXCEPT ![h].pc = "done",
                                  ![h].transaction = "resolved"]
          /\ UNCHANGED << readerNameToElements, readerConnections, connections >>
     ELSE CleanupAwaited(h, [acts[h] EXCEPT
                               !.transaction = IF outcome = "rejected"
                                               THEN "rejected" ELSE "resolved",
                               !.errorMessage = "Failed to read certificate"])
  /\ UNCHANGED clicks

\* click on "Connect": handleConnect up to its await of scardContext.connect
ClickConnect(readerName, limit) ==
  /\ UNCHANGED track
  /\ clicks < limit
  /\ readerName \in DOMAIN readerNameToElements
  /\ ~readerNameToElements[readerName].connectDisabled
  /\ clicks' = clicks + 1
  /\ acts' = Append(acts,
       [Activation("connect", readerName) EXCEPT
          !.pc = IF readerName \in DOMAIN readerConnections
                 THEN "done" ELSE "connect"])
  /\ UNCHANGED << readerNameToElements, readerConnections, connections >>

\* a handleConnect that records the connection whatever its active protocol:
\* C18_RecordedOnlyT1 distinguishes it from ConnectSettle
ConnectSettleAnyProtocol(h, outcome, limit) ==
  /\ UNCHANGED track
  /\ acts[h].pc = "connect"
  /\ outcome # "rejected" => Len(connections) < limit
  /\ LET readerName == acts[h].reader
         c == Len(connections) + 1
         hosted == IF outcome = "rejected" THEN connections
                   ELSE Append(connections,
                          [reader |-> readerName, open |-> TRUE,
                           disconnectCalled |-> FALSE, protocol |-> outcome])
         done == [acts[h] EXCEPT !.pc = "done",
                    !.connection = IF outcome = "rejected" THEN 0 ELSE c,
                    !.errorMessage = IF outcome # "rejected" THEN ""
                                     ELSE "Connection failed"]
     IN  IF outcome # "rejected"
         THEN /\ readerConnections' = MapSet(readerConnections, readerName, c)
              /\ connections' = hosted
              /\ acts' = [acts EXCEPT ![h] = done]
              /\ readerNameToElements' =
                   updateReaderUIState(readerNameToElements,
                                       readerConnections', readerName)
         ELSE /\ UNCHANGED readerConnections
              /\ readerNameToElements' =
                   updateReaderUIState(readerNameToElements,
                                       readerConnections, readerName)
              /\ IF readerName \in DOMAIN readerConnections
                 THEN LET old == readerConnections[readerName] IN
                      /\ connections' =
                           [hosted EXCEPT ![old].disconnectCalled = TRUE]
                      /\ acts' = Append([acts EXCEPT ![h] = done],
                           [Activation("cleanup", readerName) EXCEPT
                              !.pc = "disconnect", !.cleaned = old])
                 ELSE /\ connections' = hosted
                      /\ acts' = [acts EXCEPT ![h] = done]
  /\ UNCHANGED clicks

\* scardContext.connect settled: with a connection and its active protocol,
\* or rejected.  The catch block does not await cleanupReaderConnectionAndUI:
\* when the reader has a connection, the cleanup goes on as an activation of
\* its own.
ConnectSettle(h, outcome, limit) ==
  /\ UNCHANGED track
  /\ acts[h].pc = "connect"
  /\ outcome # "rejected" => Len(connections) < limit
  /\ LET readerName == acts[h].reader
         c == Len(connections) + 1
         hosted == IF outcome = "rejected" THEN connections
                   ELSE Append(connections,
                          [reader |-> readerName, open |-> TRUE,
                           disconnectCalled |-> FALSE, protocol |-> outcome])
         done == [acts[h] EXCEPT !.pc = "done",
                    !.connection = IF outcome = "rejected" THEN 0 ELSE c,
                    !.errorMessage = IF outcome = "t1" THEN ""
                                     ELSE "Connection failed"]
     IN  IF outcome = "t1"
         THEN /\ readerConnections' = MapSet(readerConnections, readerName, c)
              /\ connections' = hosted
              /\ acts' = [acts EXCEPT ![h] = done]
              /\ readerNameToElements' =
                   updateReaderUIState(readerNameToElements,
                                       readerConnections', readerName)
         ELSE /\ UNCHANGED readerConnections
              /\ readerNameToElements' =
                   updateReaderUIState(readerNameToElements,
                                       readerConnections, readerName)
              /\ IF readerName \in DOMAIN readerConnections
                 THEN LET old == readerConnections[readerName] IN
                      /\ connections' =
                           [hosted EXCEPT ![old].disconnectCalled = TRUE]
                      /\ acts' = Append([acts EXCEPT ![h] = done],
                           [Activation("cleanup", readerName) EXCEPT
                              !.pc = "disconnect", !.cleaned = old])
                 ELSE /\ connections' = hosted
                      /\ acts' = [acts EXCEPT ![h] = done]
  /\ UNCHANGED clicks

\* click on "Disconnect": handleDisconnect up to the await inside
\* cleanupReaderConnectionAndUI
ClickDisconnect(readerName, limit) ==
  /\ UNCHANGED track
  /\ clicks < limit
  /\ readerName \in DOMAIN readerNameToElements
  /\ ~readerNameToElements[readerName].disconnectDisabled
  /\ clicks' = clicks + 1
  /\ LET a == Activation("disconnect", readerName) IN
         IF readerName \in DOMAIN readerConnections
         THEN LET c == readerConnections[readerName] IN
              /\ acts' = Append(acts, [a EXCEPT !.pc = "disconnect",
                                                !.cleaned = c])
              /\ connections' = [connections EXCEPT ![c].disconnectCalled = TRUE]
              /\ UNCHANGED << readerNameToElements, readerConnections >>
         ELSE /\ acts' = Append(acts, [a EXCEPT !.pc = "done"])
              /\ readerNameToElements' =
                   updateReaderUIState(readerNameToElements, readerConnections,
                                       readerName)
              /\ UNCHANGED << connections, readerConnections >>

--------------------------------------------------------------------------
(* index.ts: tracking the readers *)

\* what a rejected call or a failed assertion throws
AbortError == [dom |-> TRUE, name |-> "AbortError", message |-> "aborted"]
SmartCardError ==
  [dom |-> TRUE, name |-> "SmartCardError", message |-> "host failure"]
AssertionError(msg) == [dom |-> FALSE, name |-> "Error", message |-> msg]

\* an execution of startTrackingReaders at its start: its readerStatesIn, the
\* entries it queries in addNewReaders, the signal of its controller, the
\* blocking calls it has made, and how it ended
Session ==
  [pc |-> "start", readerStatesIn |-> << >>, newReaderStatesIn |-> << >>,
   signal |-> "none", rounds |-> 0, cause |-> << >>, shown |-> FALSE]

\* the reader names of a list of states
Names(states) == {states[i].readerName : i \in DOMAIN states}

\* the five flags copied from an eventState
Flags(eventState) ==
  eventState \cap {"empty", "present", "exclusive", "inuse", "mute"}

\* no entry removed: C29_Applied distinguishes it from removeStateInWithName
removeNoStateIn(readerStatesIn, readerName) == readerStatesIn

removeStateInWithName(readerStatesIn, readerName) ==
  IF readerName \notin Names(readerStatesIn) THEN readerStatesIn
  ELSE LET index == CHOOSE i \in DOMAIN readerStatesIn :
                      /\ readerStatesIn[i].readerName = readerName
                      /\ \A j \in 1..(i - 1) :
                           readerStatesIn[j].readerName # readerName
       IN  SubSeq(readerStatesIn, 1, index - 1)
             \o SubSeq(readerStatesIn, index + 1, Len(readerStatesIn))

\* updateReaderStatesIn: the list after the reports, or the failed assertion
RECURSIVE updateReaderStatesIn(_, _)
updateReaderStatesIn(readerStatesIn, readerStatesOut) ==
  IF readerStatesOut = << >> THEN [ok |-> TRUE, readerStatesIn |-> readerStatesIn]
  ELSE LET stateOut == Head(readerStatesOut) IN
       IF "unknown" \in stateOut.eventState \/ "unavailable" \in stateOut.eventState
       THEN updateReaderStatesIn(
              removeStateInWithName(readerStatesIn, stateOut.readerName),
              Tail(readerStatesOut))
       ELSE IF stateOut.readerName \notin Names(readerStatesIn)
       THEN [ok |-> FALSE,
             error |-> AssertionError("updateReaderStatesIn: stateIn !== undefined")]
       ELSE LET index == CHOOSE i \in DOMAIN readerStatesIn :
                           /\ readerStatesIn[i].readerName = stateOut.readerName
                           /\ \A j \in 1..(i - 1) :
                                readerStatesIn[j].readerName # stateOut.readerName
            IN  updateReaderStatesIn(
                  [readerStatesIn EXCEPT ![index] =
                     [readerName |-> stateOut.readerName,
                      currentState |-> Flags(stateOut.eventState),
                      currentCount |-> stateOut.eventCount]],
                  Tail(readerStatesOut))

\* every listed name queried: C30_Discovered distinguishes it from
\* newReaderStatesOf
queryEveryName(readerStatesIn, names) ==
  [i \in DOMAIN names |-> [readerName |-> names[i], currentState |-> {"unaware"}]]

\* addNewReaders from the resolution of listReaders with names: the states
\* it queries
RECURSIVE newReaderStatesOf(_, _)
newReaderStatesOf(readerStatesIn, names) ==
  IF names = << >> THEN << >>
  ELSE IF Head(names) \in Names(readerStatesIn)
  THEN newReaderStatesOf(readerStatesIn, Tail(names))
  ELSE << [readerName |-> Head(names), currentState |-> {"unaware"}] >>
         \o newReaderStatesOf(readerStatesIn, Tail(names))

\* addNewReaders from the resolution of its getStatusChange: the list with
\* the new readers pushed
RECURSIVE pushNewReaders(_, _)
pushNewReaders(readerStatesIn, newReadersStateOut) ==
  IF newReadersStateOut = << >> THEN readerStatesIn
  ELSE LET newReaderStateOut == Head(newReadersStateOut)
           eventState == newReaderStateOut.eventState
       IN  IF eventState \cap {"ignore", "unknown", "unavailable"} # {}
           THEN pushNewReaders(readerStatesIn, Tail(newReadersStateOut))
           ELSE pushNewReaders(
                  Append(readerStatesIn,
                         [readerName |-> newReaderStateOut.readerName,
                          currentState |-> Flags(eventState),
                          currentCount |-> newReaderStateOut.eventCount]),
                  Tail(newReadersStateOut))

\* a set as a list, in some order
RECURSIVE ListOf(_)
ListOf(names) ==
  IF names = {} THEN << >>
  ELSE LET x == CHOOSE y \in names : TRUE IN << x >> \o ListOf(names \ {x})

\* no cleanup started for the removed readers: C32_RemovedAndDisconnected
\* distinguishes it from cleanupRemoved
cleanupNotStarted(removed, conns, hosted, activations) ==
  [connections |-> hosted, acts |-> activations]

\* the calls of cleanupReaderConnectionAndUI that updateReadersHTML does not
\* await, for the removed readers: each one that has a connection calls its
\* disconnect() and goes on as an activation of its own
RECURSIVE cleanupRemoved(_, _, _, _)
cleanupRemoved(removed, conns, hosted, activations) ==
  IF removed = << >> THEN [connections |-> hosted, acts |-> activations]
  ELSE LET readerName == Head(removed) IN
       IF readerName \in DOMAIN conns
       THEN cleanupRemoved(Tail(removed), conns,
              [hosted EXCEPT ![conns[readerName]].disconnectCalled = TRUE],
              Append(activations,
                     [Activation("cleanup", readerName) EXCEPT
                        !.pc = "disconnect", !.cleaned = conns[readerName],
                        !.errorMessage = "Reader removed from system."]))
       ELSE cleanupRemoved(Tail(removed), conns, hosted, activations)

\* elements for every name of the list, the pseudo-reader included:
\* C15_NoPnPDisplayed distinguishes it from addDivsForReaders
RECURSIVE addDivsForEveryName(_, _, _)
addDivsForEveryName(elements, conns, names) ==
  IF names = << >> THEN elements
  ELSE LET readerName == Head(names) IN
       IF readerName \in DOMAIN elements
       THEN addDivsForEveryName(elements, conns, Tail(names))
       ELSE addDivsForEveryName(
              updateReaderUIState(MapSet(elements, readerName, << >>), conns,
                                  readerName),
              conns, Tail(names))

\* addDivForReader for each name of the list, in order
RECURSIVE addDivsForReaders(_, _, _)
addDivsForReaders(elements, conns, names) ==
  IF names = << >> THEN elements
  ELSE LET readerName == Head(names) IN
       IF readerName = PNP_NOTIFICATION \/ readerName \in DOMAIN elements
       THEN addDivsForReaders(elements, conns, Tail(names))
       ELSE addDivsForReaders(
              updateReaderUIState(MapSet(elements, readerName, << >>), conns,
                                  readerName),
              conns, Tail(names))

\* updateReadersHTML: the elements, the message, the connections and the
\* activations it leaves
updateReadersHTML(readerStatesIn) ==
  LET currentSystemReaderNames == Names(readerStatesIn) \ {PNP_NOTIFICATION}
      removed == ListOf(DOMAIN readerNameToElements \ currentSystemReaderNames)
      cleaned == cleanupRemoved(removed, readerConnections, connections, acts)
      kept == [r \in DOMAIN readerNameToElements \cap currentSystemReaderNames
                 |-> readerNameToElements[r]]
      elements == addDivsForReaders(kept, readerConnections,
                    [i \in DOMAIN readerStatesIn |-> readerStatesIn[i].readerName])
  IN  [readerNameToElements |-> elements,
       readersListElement |->
         IF DOMAIN elements = {} /\ currentSystemReaderNames = {}
         THEN "No smart card readers available."
         ELSE IF DOMAIN elements # {} THEN "" ELSE readersListElement,
       connections |-> cleaned.connections,
       acts |-> cleaned.acts]

\* a catch block that reports every error: C10_ErrorIffNotAbort
\* distinguishes it from reported
reportedAlways(e) == TRUE

\* the test of the catch block of startTrackingReaders
reported(e) == ~e.dom \/ e.name # "AbortError"

\* the sessions with session as the one numbered h
Put(h, session) ==
  IF h \in DOMAIN sessions THEN [sessions EXCEPT ![h] = session]
  ELSE Append(sessions, session)

\* startTrackingReaders from its catch block to its end, where its locals
\* are gone
Caught(h, session, e) ==
  /\ sessions' = Put(h, [session EXCEPT !.pc = "done", !.cause = e,
                                        !.shown = reported(e),
                                        !.readerStatesIn = << >>,
                                        !.newReaderStatesIn = << >>,
                                        !.rounds = 0])
  /\ trackReadersButton' = START_TRACKING_STRING
  /\ readerTrackingAbortion' = 0
  /\ refreshReadersButton' = FALSE

\* the call of addNewReaders: up to its await of listReaders
Discover(h, session) ==
  sessions' = Put(h, [session EXCEPT !.pc = "listReaders"])

\* startTrackingReaders from the context to the first await of its loop
BeginTracking(h, session) ==
  /\ Discover(h, [session EXCEPT !.readerStatesIn =
                    << [readerName |-> PNP_NOTIFICATION, currentState |-> {}] >>])
  /\ trackReadersButton' = STOP_TRACKING_STRING
  /\ refreshReadersButton' = TRUE
  /\ UNCHANGED << readerTrackingAbortion, readersListElement,
                  readerNameToElements, readerConnections, connections, acts >>

\* the loop from the return of addNewReaders to its blocking getStatusChange,
\* or to the end when the assertion fails
Watch(h, session) ==
  LET html == updateReadersHTML(session.readerStatesIn) IN
  /\ readerNameToElements' = html.readerNameToElements
  /\ connections' = html.connections
  /\ acts' = html.acts
  /\ IF readerTrackingAbortion # 0
     THEN LET e == AssertionError(
                     "assertion failed: readerTrackingAbortion === undefined")
          IN  /\ Caught(h, session, e)
              /\ readersListElement' = IF reported(e) THEN "Failed start tracking"
                                       ELSE html.readersListElement
     ELSE /\ sessions' = Put(h, [session EXCEPT !.pc = "getStatusChange",
                                                !.signal = "armed",
                                                !.rounds = @ + 1])
          /\ readerTrackingAbortion' = h
          /\ readersListElement' = html.readersListElement
          /\ UNCHANGED << trackReadersButton, refreshReadersButton >>
  /\ UNCHANGED << readerConnections, clicks, scardTrackingContext, readers >>

\* the catch block reached with nothing else changed by the step
Fail(h, session, e) ==
  /\ Caught(h, session, e)
  /\ readersListElement' = IF reported(e) THEN "Failed start tracking"
                           ELSE readersListElement
  /\ UNCHANGED << readerNameToElements, readerConnections, connections, acts,
                  clicks, scardTrackingContext, readers >>

\* click on the track button: startStopTrackingReaders up to the first
\* await of startTrackingReaders, or stopTrackingReaders
ClickTrackReaders(limit) ==
  /\ clicks < limit
  /\ clicks' = clicks + 1
  /\ IF trackReadersButton = START_TRACKING_STRING
     THEN IF scardTrackingContext = 0
          THEN /\ sessions' = Append(sessions,
                                [Session EXCEPT !.pc = "establishContext"])
               /\ UNCHANGED << trackReadersButton, refreshReadersButton,
                               readerTrackingAbortion, readersListElement,
                               readerNameToElements, readerConnections,
                               connections, acts >>
          ELSE BeginTracking(Len(sessions) + 1, Session)
     ELSE /\ sessions' =
               IF readerTrackingAbortion # 0
               THEN [sessions EXCEPT ![readerTrackingAbortion].signal = "aborted"]
               ELSE sessions
          /\ UNCHANGED << trackReadersButton, refreshReadersButton,
                          readerTrackingAbortion, readersListElement,
                          readerNameToElements, readerConnections,
                          connections, acts >>
  /\ UNCHANGED << scardTrackingContext, readers >>

\* navigator.smartCard.establishContext() of a session settled
EstablishContextSettle(h, resolved) ==
  /\ sessions[h].pc = "establishContext"
  /\ IF resolved
     THEN /\ scardTrackingContext' = h
          /\ BeginTracking(h, sessions[h])
          /\ UNCHANGED << clicks, readers >>
     ELSE Fail(h, sessions[h], SmartCardError)

\* listReaders of addNewReaders settled: with the platform's readers, and
\* addNewReaders goes on to its getStatusChange or returns, or rejected
ListReadersSettle(h, resolved) ==
  /\ sessions[h].pc = "listReaders"
  /\ IF resolved
     THEN LET newReaderStatesIn ==
                newReaderStatesOf(sessions[h].readerStatesIn, ListOf(readers))
          IN  IF newReaderStatesIn = << >>
              THEN Watch(h, sessions[h])
              ELSE /\ sessions' = Put(h, [sessions[h] EXCEPT
                                            !.pc = "newStatus",
                                            !.newReaderStatesIn = newReaderStatesIn])
                   /\ UNCHANGED << readerNameToElements, readerConnections,
                                   connections, acts, clicks,
                                   scardTrackingContext, readerTrackingAbortion,
                                   trackReadersButton, refreshReadersButton,
                                   readersListElement, readers >>
     ELSE Fail(h, sessions[h], SmartCardError)

\* the event states the platform reports for a reader
EventStates == { {"present", "changed"}, {"unknown"} }

\* the platform's report on the queried states: eventStates[i] for the i-th
ReaderStatesOut(queried, eventStates) ==
  [i \in DOMAIN queried |->
     [readerName |-> queried[i].readerName, eventState |-> eventStates[i],
      eventCount |-> IF "present" \in eventStates[i] THEN 1 ELSE 0]]

\* getStatusChange(newReaderStatesIn) of addNewReaders settled
NewReadersStatusSettle(h, resolved, eventStates) ==
  /\ sessions[h].pc = "newStatus"
  /\ IF resolved
     THEN Watch(h, [sessions[h] EXCEPT
                      !.readerStatesIn =
                         pushNewReaders(@, ReaderStatesOut(
                           sessions[h].newReaderStatesIn, eventStates)),
                      !.newReaderStatesIn = << >>])
     ELSE Fail(h, sessions[h], SmartCardError)

\* the most blocking calls of one session that the platform answers
MaxRounds == 1

\* the blocking getStatusChange settled: rejected with the AbortError once
\* its signal is aborted; else resolved with reports or rejected
StatusChangeSettle(h, resolved, eventStates) ==
  /\ sessions[h].pc = "getStatusChange"
  /\ resolved => sessions[h].signal # "aborted" /\ sessions[h].rounds <= MaxRounds
  /\ IF resolved
     THEN LET updated == updateReaderStatesIn(
                           sessions[h].readerStatesIn,
                           ReaderStatesOut(sessions[h].readerStatesIn, eventStates))
          IN  IF updated.ok
              THEN /\ Discover(h, [sessions[h] EXCEPT
                                     !.readerStatesIn = updated.readerStatesIn,
                                     !.signal = "none"])
                   /\ readerTrackingAbortion' = 0
                   /\ UNCHANGED << readerNameToElements, readerConnections,
                                   connections, acts, clicks,
                                   scardTrackingContext, trackReadersButton,
                                   refreshReadersButton, readersListElement,
                                   readers >>
              ELSE Fail(h, sessions[h], updated.error)
     ELSE Fail(h, sessions[h],
               IF sessions[h].signal = "aborted" THEN AbortError
               ELSE SmartCardError)

\* the names of the readers that come and go
ReaderNames == {"R1"}

\* a reader is plugged in or removed
PlatformChange(readerName) ==
  /\ readers' = IF readerName \in readers THEN readers \ {readerName}
                ELSE readers \cup {readerName}
  /\ UNCHANGED << readerNameToElements, readerConnections, connections, acts,
                  clicks, scardTrackingContext, readerTrackingAbortion,
                  trackReadersButton, refreshReadersButton, readersListElement,
                  sessions >>

--------------------------------------------------------------------------
(* index.ts: refreshing the list of readers *)

\* the calls of cleanupReaderConnectionAndUI(name) that the catch block of
\* refreshReadersList starts for every known reader: each one that has a
\* connection calls its disconnect() and goes on as an activation of its own
RECURSIVE cleanupKnown(_, _, _, _)
cleanupKnown(known, conns, hosted, activations) ==
  IF known = << >> THEN [connections |-> hosted, acts |-> activations]
  ELSE LET name == Head(known) IN
       IF name \in DOMAIN conns
       THEN cleanupKnown(Tail(known), conns,
              [hosted EXCEPT ![conns[name]].disconnectCalled = TRUE],
              Append(activations,
                     [Activation("cleanup", name) EXCEPT
                        !.pc = "disconnect", !.cleaned = conns[name]]))
       ELSE cleanupKnown(Tail(known), conns, hosted, activations)

\* the last loop of refreshReadersList: addDivForReader for each fetched name
\* that has no elements
RECURSIVE addFetchedReaders(_, _, _)
addFetchedReaders(elements, conns, names) ==
  IF names = << >> THEN elements
  ELSE LET name == Head(names) IN
       IF name \in DOMAIN elements
       THEN addFetchedReaders(elements, conns, Tail(names))
       ELSE addFetchedReaders(
              updateReaderUIState(MapSet(elements, name, << >>), conns, name),
              conns, Tail(names))

\* refreshReadersList from its loop over the known names to its next await
\* of connection.disconnect(), or to its end: the activation, the elements,
\* the host's connections and the message it leaves
RECURSIVE removeGone(_, _, _, _, _)
removeGone(a, elements, conns, hosted, text) ==
  LET gone == a.known \ a.fetched IN
  IF gone = {}
  THEN LET added == addFetchedReaders(elements, conns, ListOf(a.fetched)) IN
       [a |-> [a EXCEPT !.pc = "done", !.known = {}],
        readerNameToElements |-> added,
        connections |-> hosted,
        readersListElement |->
          IF DOMAIN added = {} /\ a.fetched = {}
          THEN "No smart card readers available." ELSE text]
  ELSE LET name == CHOOSE n \in gone : TRUE IN
       IF name \in DOMAIN conns
       THEN [a |-> [a EXCEPT !.pc = "disconnect", !.reader = name,
                             !.cleaned = conns[name],
                             !.known = @ \ {name},
                             !.errorMessage = "Reader no longer listed."],
             readerNameToElements |-> elements,
             connections |->
               [hosted EXCEPT ![conns[name]].disconnectCalled = TRUE],
             readersListElement |-> text]
       ELSE removeGone([a EXCEPT !.known = @ \ {name}],
                       MapDelete(elements, name), conns, hosted, text)

\* click on the refresh button: refreshReadersList up to its await of
\* scardContext.listReaders
ClickRefreshReaders(limit) ==
  /\ clicks < limit
  /\ ~refreshReadersButton
  /\ clicks' = clicks + 1
  /\ acts' = Append(acts, [Activation("refresh", "") EXCEPT !.pc = "listReaders"])
  /\ UNCHANGED << readerNameToElements, readerConnections, connections, track >>

\* scardContext.listReaders of a refresh settled: with the platform's
\* readers, or rejected into the catch block
RefreshListSettle(h, resolved) ==
  /\ acts[h].kind = "refresh"
  /\ acts[h].pc = "listReaders"
  /\ IF resolved
     THEN LET out == removeGone(
                       [acts[h] EXCEPT !.fetched = readers,
                                       !.known = DOMAIN readerNameToElements],
                       readerNameToElements, readerConnections, connections,
                       IF readersListElement # "" /\ readers # {} THEN ""
                       ELSE readersListElement)
          IN  /\ acts' = [acts EXCEPT ![h] = out.a]
              /\ readerNameToElements' = out.readerNameToElements
              /\ connections' = out.connections
              /\ readersListElement' = out.readersListElement
     ELSE LET cleaned == cleanupKnown(ListOf(DOMAIN readerNameToElements),
                                      readerConnections, connections,
                                      [acts EXCEPT ![h].pc = "done"])
          IN  /\ acts' = cleaned.acts
              /\ connections' = cleaned.connections
              /\ readerNameToElements' = << >>
              /\ readersListElement' = "Failed to list readers"
  /\ UNCHANGED << readerConnections, clicks, scardTrackingContext,
                  readerTrackingAbortion, trackReadersButton,
                  refreshReadersButton, readers, sessions >>

\* connection.disconnect() of the cleanup awaited by a refresh settled: the
\* rest of cleanupReaderConnectionAndUI, the deletion of the elements and
\* the refresh up to its next await or its end
RefreshCleanupSettle(h, resolved) ==
  /\ acts[h].kind = "refresh"
  /\ acts[h].pc = "disconnect"
  /\ readerConnections' = MapDelete(readerConnections, acts[h].reader)
  /\ LET out == removeGone(
                  acts[h],
                  MapDelete(readerNameToElements, acts[h].reader),
                  readerConnections',
                  IF resolved
                  THEN [connections EXCEPT ![acts[h].cleaned].open = FALSE]
                  ELSE connections,
                  readersListElement)
     IN  /\ acts' = [acts EXCEPT ![h] = out.a]
         /\ readerNameToElements' = out.readerNameToElements
         /\ connections' = out.connections
         /\ readersListElement' = out.readersListElement
  /\ UNCHANGED << clicks, scardTrackingContext, readerTrackingAbortion,
                  trackReadersButton, refreshReadersButton, readers, sessions >>

--------------------------------------------------------------------------
(* The card behind connection.transmit *)

\* a response APDU: the data field, then SW1 and SW2
Reply(data, sw1, sw2) == BCat(data, Lit(<< sw1, sw2 >>))

\* the most turns of fetchObject's loop that the card answers with 0x61xx
MaxContinuations == 2

\* an object of MAX_DATA_LENGTH - 2 bytes when two more bytes follow: the
\* wrapper 53 83 01 11 6B, the entry 70 83 01 11 66, then bytes AA
LongObject ==
  BCat(Lit(<< 83, 131, 1, 17, 107, 112, 131, 1, 17, 102 >>),
       Fill(170, MAX_DATA_LENGTH - 12))

\* MAX_DATA_LENGTH bytes: LongObject, then the bytes AA AA
FullObject == BCat(LongObject, Fill(170, 2))

\* an object of MAX_DATA_LENGTH - 2 bytes with the indefinite length form:
\* the wrapper 53 80, the entry 70 83 01 11 67, then bytes AA
IndefiniteObject ==
  BCat(Lit(<< 83, 128, 112, 131, 1, 17, 103 >>),
       Fill(170, MAX_DATA_LENGTH - 9))

\* the data fields the card answers GET DATA and GET RESPONSE with
DataFields ==
  { Lit(<< 83, 2 >>),                     \* 53 02
    Lit(<< 112, 0 >>),                    \* 70 00
    Lit(<< 83, 129 >>),                   \* 53 81
    Lit(<< 2 >>),                         \* 02
    Lit(<< 83, 0 >>),                     \* 53 00
    Lit(<< 83, 136, 255, 255, 255, 252 >>), \* 53 88 FF FF FF FC
    LongObject,
    FullObject,
    IndefiniteObject }

\* the status words the card answers with: 9000, 6100, 61FF, 6A82
StatusWords == { << 144, 0 >>, << 97, 0 >>, << 97, 255 >>, << 106, 130 >> }

\* the buffers transmit resolves with for GET DATA and GET RESPONSE: with a
\* data field, with the status bytes only, and too short for a response
FetchReplies ==
  { Reply(d, sw[1], sw[2]) : d \in DataFields, sw \in StatusWords }
    \cup { Reply(<< >>, sw[1], sw[2]) : sw \in StatusWords }
    \cup { << >>, Lit(<< 144 >>) }

\* the buffers transmit resolves with for SELECT
SelectReplies ==
  { Reply(<< >>, 144, 0), Reply(Lit(<< 97, 0 >>), 144, 0),
    Reply(<< >>, 106, 130), Reply(<< >>, 97, 255), Lit(<< 144 >>) }

\* whether the buffer is a response with SW1 = 0x61
IsContinuation(buffer) ==
  BLen(buffer) >= 2 /\ BAt(buffer, BLen(buffer) - 2) = BytesStillAvailable

\* the buffers the card may answer the pending transmit of activation a with
CardReplies(a) ==
  IF a.pc = "select" THEN SelectReplies
  ELSE { b \in FetchReplies :
           IsContinuation(b) => Len(a.got) - 1 < MaxContinuations }

--------------------------------------------------------------------------
(* One certificate read on a connected reader, byte by byte *)

Connected == [connectDisabled |-> TRUE, disconnectDisabled |-> FALSE,
              readCertDisabled |-> FALSE]

InitRead ==
  /\ readerNameToElements = [r \in {"R1"} |-> Connected]
  /\ readerConnections = [r \in {"R1"} |-> 1]
  /\ connections = << [reader |-> "R1", open |-> TRUE,
                       disconnectCalled |-> FALSE, protocol |-> "t1"] >>
  /\ acts = << >>
  /\ clicks = 0
  /\ scardTrackingContext = 0
  /\ readerTrackingAbortion = 0
  /\ trackReadersButton = START_TRACKING_STRING
  /\ refreshReadersButton = FALSE
  /\ readersListElement = ""
  /\ readers = {"R1"}
  /\ sessions = << >>

NextRead ==
  \/ ClickReadCertificate("R1", 1)
  \/ \E h \in DOMAIN acts : HostRunTransaction(h)
  \/ \E h \in DOMAIN acts : HostRejectTransaction(h)
  \/ \E h \in DOMAIN acts :
       \E buffer \in CardReplies(acts[h]) : TransmitResolve(h, buffer)
  \/ \E h \in DOMAIN acts : TransmitReject(h)
  \/ \E h \in DOMAIN acts, outcome \in {"displayed", "undisplayable", "rejected"} :
       HostEndTransaction(h, outcome)
  \/ \E h \in DOMAIN acts, resolved \in BOOLEAN : DisconnectSettle(h, resolved)

SpecRead == InitRead /\ [][NextRead]_vars

--------------------------------------------------------------------------
(* The codecs of apdu.ts and ber.ts, each on one input *)

\* the longest response buffer, in bytes
MaxResponseLen == 4

\* the response buffers: every string of the bytes 00, 61, 90 and FF up to
\* MaxResponseLen bytes
ResponseBuffers ==
  { Lit(w) : w \in UNION { [1..n -> {0, 97, 144, 255}] : n \in 0..MaxResponseLen } }

\* the most bytes after a length byte
MaxLengthBytes == 5

\* the buffers and offsets readLength is called with: a length byte 00, 7F,
\* 80, 81, 82, 84 or 85 at offset 0 or 1, then up to MaxLengthBytes bytes of
\* 00, 01 and FF
LengthFields ==
  { [bytes |-> Lit(lead \o << b >> \o w), bytesOffset |-> Len(lead)] :
      lead \in { << >>, << 83 >> },
      b \in {0, 127, 128, 129, 130, 132, 133},
      w \in UNION { [1..n -> {0, 1, 255}] : n \in 0..MaxLengthBytes } }

\* the most entries of a buffer
MaxEntries == 3

\* the entries: tag 01 or 70, a definite length in the short form or in the
\* long form with 1 or 2 length bytes, and a value of that length
Entries ==
  [tag : {1, Certificate},
   form : { [length |-> << 0 >>, value |-> << >>],
            [length |-> << 1 >>, value |-> << 112 >>],
            [length |-> << 129, 1 >>, value |-> << 1 >>],
            [length |-> << 130, 0, 2 >>, value |-> << 1, 112 >>] }]

\* the bytes of a list of entries
RECURSIVE EntryBytes(_)
EntryBytes(entries) ==
  IF entries = << >> THEN << >>
  ELSE << Head(entries).tag >> \o Head(entries).form.length
         \o Head(entries).form.value \o EntryBytes(Tail(entries))

\* the buffers and tags getValue is called with: up to MaxEntries entries
\* that fill the buffer, looked up for tag 70 or 53
TaggedBuffers ==
  { [buffer |-> Lit(EntryBytes(entries)), tag |-> tag, entries |-> entries] :
      entries \in UNION { [1..n -> Entries] : n \in 0..MaxEntries },
      tag \in {Certificate, DiscretionaryData} }

\* the longest buffer of arbitrary bytes
MaxScanLen == 3

\* the buffers of arbitrary bytes getValue is called with, as a card may
\* return them: every string of the bytes 00, 01, 70, 80 up to MaxScanLen
\* bytes, looked up for tag 70
ScanBuffers ==
  { [buffer |-> Lit(w), tag |-> Certificate] :
      w \in UNION { [1..n -> {0, 1, Certificate, 128}] : n \in 0..MaxScanLen } }

\* the object tags fetchObject is called with: of 1, 2 and 3 bytes, and of
\* 0 and 4 bytes
ObjectTags ==
  {0, 1, 126, 255, 256, 24513, 65535, 65536, CertificateForCardAuthentication,
   16777215, 16777216}

\* the data fields of the commands: 0, 3, 255 and 256 bytes
CommandData == { << >>, Lit(<< 1, 2, 3 >>), Fill(170, 255), Fill(170, 256) }

\* the commands: with p1 and p2 or with p, with and without data and ne
Commands ==
  { header @@ params @@ data @@ ne :
      header \in [cla : {0, 128}, ins : {Select, GetData}],
      params \in [p1 : {0, SelectDFByName}, p2 : {0, 255}]
                   \cup [p : {CurrentDF, 258}],
      data \in { << >> } \cup [data : CommandData],
      ne \in { << >> } \cup [ne : {0, 1, 255, 256}] }

\* a caller holds a command
InitCodec ==
  /\ readerNameToElements = << >>
  /\ readerConnections = << >>
  /\ connections = << >>
  /\ acts \in { << [Activation("serialize", "") EXCEPT !.command = apdu] >> :
                  apdu \in Commands }
              \cup { << [Activation("deserialize", "") EXCEPT !.got = << buffer >>] >> :
                       buffer \in ResponseBuffers }
              \cup { << [Activation("readLength", "") EXCEPT !.command = field] >> :
                       field \in LengthFields }
              \cup { << [Activation("getValue", "") EXCEPT !.command = tagged] >> :
                       tagged \in TaggedBuffers \cup ScanBuffers }
              \cup { << [Activation("fetchObject", "") EXCEPT !.object = objectTag] >> :
                       objectTag \in ObjectTags }
              \cup { << Activation("selectPIVApplication", "") >> }
  /\ clicks = 0
  /\ scardTrackingContext = 0
  /\ readerTrackingAbortion = 0
  /\ trackReadersButton = START_TRACKING_STRING
  /\ refreshReadersButton = FALSE
  /\ readersListElement = ""
  /\ readers = {}
  /\ sessions = << >>

\* the caller calls apdu.serializeCommand(command)
Serialize(h) ==
  /\ acts[h].kind = "serialize"
  /\ acts[h].pc = "start"
  /\ acts' = [acts EXCEPT ![h].pc = "done",
                          ![h].result = serializeCommand(acts[h].command)]
  /\ UNCHANGED << readerNameToElements, readerConnections, connections,
                  clicks, track >>

\* the caller calls apdu.deserializeResponse(buffer)
Deserialize(h) ==
  /\ acts[h].kind = "deserialize"
  /\ acts[h].pc = "start"
  /\ acts' = [acts EXCEPT ![h].pc = "done",
                          ![h].result = deserializeResponse(acts[h].got[1])]
  /\ UNCHANGED << readerNameToElements, readerConnections, connections,
                  clicks, track >>

\* the caller calls ber.readLength(bytes, bytesOffset)
ReadLength(h) ==
  /\ acts[h].kind = "readLength"
  /\ acts[h].pc = "start"
  /\ acts' = [acts EXCEPT ![h].pc = "done",
                          ![h].result = readLength(acts[h].command.bytes,
                                                   acts[h].command.bytesOffset)]
  /\ UNCHANGED << readerNameToElements, readerConnections, connections,
                  clicks, track >>

\* the caller calls ber.getValue(buffer, tag)
GetValue(h) ==
  /\ acts[h].kind = "getValue"
  /\ acts[h].pc = "start"
  /\ acts' = [acts EXCEPT ![h].pc = "done",
                          ![h].result = getValue(acts[h].command.buffer,
                                                 acts[h].command.tag)]
  /\ UNCHANGED << readerNameToElements, readerConnections, connections,
                  clicks, track >>

\* the caller calls fetchObject(scardConnection, objectTag): up to its
\* first await of transmit, or to the failure of its assertion
FetchObject(h) ==
  /\ acts[h].kind = "fetchObject"
  /\ acts[h].pc = "start"
  /\ LET begin == fetchObjectBegin(acts[h].object) IN
     acts' = [acts EXCEPT ![h] =
                IF begin.ok
                THEN Transmit([@ EXCEPT !.bytes = begin.bytes,
                                        !.dataLength = begin.dataLength],
                              begin.command, "fetch")
                ELSE [@ EXCEPT !.pc = "done", !.result = begin]]
  /\ UNCHANGED << readerNameToElements, readerConnections, connections,
                  clicks, track >>

\* the caller calls selectPIVApplication(scardConnection): up to its await
\* of transmit
SelectPIVApplication(h) ==
  /\ acts[h].kind = "selectPIVApplication"
  /\ acts[h].pc = "start"
  /\ acts' = [acts EXCEPT ![h] = Transmit(@, selectPIVApp, "select")]
  /\ UNCHANGED << readerNameToElements, readerConnections, connections,
                  clicks, track >>

NextCodec ==
  \/ \E h \in DOMAIN acts : FetchObject(h)
  \/ \E h \in DOMAIN acts : SelectPIVApplication(h)
  \/ \E h \in DOMAIN acts : Serialize(h)
  \/ \E h \in DOMAIN acts : Deserialize(h)
  \/ \E h \in DOMAIN acts : ReadLength(h)
  \/ \E h \in DOMAIN acts : GetValue(h)

SpecCodec == InitCodec /\ [][NextCodec]_vars

--------------------------------------------------------------------------
(* One certificate read for each object a card may hold *)

\* the longest object, in bytes
MaxObjectLen == 5

\* the objects: every string of the bytes 00, 01 and 70 (tags 01 and 70,
\* lengths 00 and 01) up to MaxObjectLen bytes
CertificateObjects ==
  { Lit(w) : w \in UNION { [1..n -> {0, 1, 112}] : n \in 0..MaxObjectLen } }

\* the card answers SELECT with 9000 and GET DATA with the object in its
\* wrapper 53 and 9000
ObjectReplies(a) ==
  IF a.pc = "select" THEN { Reply(<< >>, 144, 0) }
  ELSE { Reply(BCat(Lit(<< DiscretionaryData, BLen(object) >>), object), 144, 0) :
           object \in CertificateObjects }

NextCertificate ==
  \/ ClickReadCertificate("R1", 1)
  \/ \E h \in DOMAIN acts : HostRunTransaction(h)
  \/ \E h \in DOMAIN acts :
       \E buffer \in ObjectReplies(acts[h]) : TransmitResolve(h, buffer)
  \/ \E h \in DOMAIN acts, outcome \in {"displayed", "undisplayable", "rejected"} :
       HostEndTransaction(h, outcome)
  \/ \E h \in DOMAIN acts, resolved \in BOOLEAN : DisconnectSettle(h, resolved)

SpecCertificate == InitRead /\ [][NextCertificate]_vars

--------------------------------------------------------------------------
(* The buttons of one displayed reader, under every interleaving *)

\* the most clicks, and the most connections the host hands out
MaxClicks == 3
MaxConnections == 2

\* the replies of a card holding the object 53 03 70 01 AA: whole, or in two
\* parts with a continuation in between, or refused
ReplyRefused == Reply(<< >>, 106, 130)
ReplyWhole == Reply(Lit(<< 83, 3, 112, 1, 170 >>), 144, 0)
ReplyFirstPart == Reply(Lit(<< 83, 3 >>), 97, 3)
ReplyLastPart == Reply(Lit(<< 112, 1, 170 >>), 144, 0)

ShortReplies(a) ==
  IF a.pc = "select" THEN { Reply(<< >>, 144, 0), ReplyRefused }
  ELSE IF Len(a.got) = 1 THEN { ReplyWhole, ReplyFirstPart, ReplyRefused }
  ELSE { ReplyLastPart, ReplyRefused }

Disconnected == [connectDisabled |-> FALSE, disconnectDisabled |-> TRUE,
                 readCertDisabled |-> TRUE]

\* the reader R1 is displayed, as refreshReadersList leaves it
InitUI ==
  /\ readerNameToElements = [r \in {"R1"} |-> Disconnected]
  /\ readerConnections = << >>
  /\ connections = << >>
  /\ acts = << >>
  /\ clicks = 0
  /\ scardTrackingContext = 0
  /\ readerTrackingAbortion = 0
  /\ trackReadersButton = START_TRACKING_STRING
  /\ refreshReadersButton = FALSE
  /\ readersListElement = ""
  /\ readers = {"R1"}
  /\ sessions = << >>

NextUI ==
  \/ ClickConnect("R1", MaxClicks)
  \/ \E h \in DOMAIN acts, outcome \in {"t1", "t0", "rejected"} :
       ConnectSettle(h, outcome, MaxConnections)
  \/ ClickDisconnect("R1", MaxClicks)
  \/ ClickReadCertificate("R1", MaxClicks)
  \/ \E h \in DOMAIN acts : HostRunTransaction(h)
  \/ \E h \in DOMAIN acts : HostRejectTransaction(h)
  \/ \E h \in DOMAIN acts :
       \E buffer \in ShortReplies(acts[h]) : TransmitResolve(h, buffer)
  \/ \E h \in DOMAIN acts : TransmitReject(h)
  \/ \E h \in DOMAIN acts, outcome \in {"displayed", "undisplayable", "rejected"} :
       HostEndTransaction(h, outcome)
  \/ \E h \in DOMAIN acts, resolved \in BOOLEAN : DisconnectSettle(h, resolved)

SpecUI == InitUI /\ [][NextUI]_vars

\* the same handlers on a reader that is connected already
SpecReconnect == InitRead /\ [][NextUI]_vars

--------------------------------------------------------------------------
(* The track button, the platform's readers and the Connect button *)

\* the most clicks while tracking
MaxTrackClicks == 2

\* the page after DOMContentLoaded: a context, no reader displayed yet
InitTrack ==
  /\ readerNameToElements = << >>
  /\ readerConnections = << >>
  /\ connections = << >>
  /\ acts = << >>
  /\ clicks = 0
  /\ scardTrackingContext = 0
  /\ readerTrackingAbortion = 0
  /\ trackReadersButton = START_TRACKING_STRING
  /\ refreshReadersButton = FALSE
  /\ readersListElement = ""
  /\ readers \in SUBSET ReaderNames
  /\ sessions = << >>

NextTrack ==
  \/ ClickTrackReaders(MaxTrackClicks)
  \/ \E h \in DOMAIN sessions, resolved \in BOOLEAN :
       EstablishContextSettle(h, resolved)
  \/ \E h \in DOMAIN sessions, resolved \in BOOLEAN :
       ListReadersSettle(h, resolved)
  \/ \E h \in DOMAIN sessions, resolved \in BOOLEAN :
       \E eventStates \in [DOMAIN sessions[h].newReaderStatesIn -> EventStates] :
         NewReadersStatusSettle(h, resolved, eventStates)
  \/ \E h \in DOMAIN sessions, resolved \in BOOLEAN :
       \E eventStates \in [DOMAIN sessions[h].readerStatesIn -> EventStates] :
         StatusChangeSettle(h, resolved, eventStates)
  \/ \E readerName \in ReaderNames : PlatformChange(readerName)
  \/ \E readerName \in ReaderNames : ClickConnect(readerName, MaxTrackClicks)
  \/ \E h \in DOMAIN acts, outcome \in {"t1", "t0", "rejected"} :
       ConnectSettle(h, outcome, MaxConnections)
  \/ \E h \in DOMAIN acts, resolved \in BOOLEAN : DisconnectSettle(h, resolved)

SpecTrack == InitTrack /\ [][NextTrack]_vars

--------------------------------------------------------------------------
(* The refresh button next to the track button *)

\* the most clicks on the page
MaxRefreshClicks == 3

NextRefresh ==
  \/ ClickRefreshReaders(MaxRefreshClicks)
  \/ \E h \in DOMAIN acts, resolved \in BOOLEAN : RefreshListSettle(h, resolved)
  \/ \E h \in DOMAIN acts, resolved \in BOOLEAN : RefreshCleanupSettle(h, resolved)
  \/ ClickTrackReaders(MaxRefreshClicks)
  \/ \E h \in DOMAIN sessions, resolved \in BOOLEAN :
       EstablishContextSettle(h, resolved)
  \/ \E h \in DOMAIN sessions, resolved \in BOOLEAN :
       ListReadersSettle(h, resolved)
  \/ \E h \in DOMAIN sessions, resolved \in BOOLEAN :
       \E eventStates \in [DOMAIN sessions[h].newReaderStatesIn -> EventStates] :
         NewReadersStatusSettle(h, resolved, eventStates)
  \/ \E h \in DOMAIN sessions, resolved \in BOOLEAN :
       \E eventStates \in [DOMAIN sessions[h].readerStatesIn -> EventStates] :
         StatusChangeSettle(h, resolved, eventStates)
  \/ \E readerName \in ReaderNames : PlatformChange(readerName)
  \/ \E readerName \in ReaderNames : ClickConnect(readerName, MaxRefreshClicks)
  \/ \E h \in DOMAIN acts, outcome \in {"t1", "t0", "rejected"} :
       ConnectSettle(h, outcome, MaxConnections)
  \/ \E h \in DOMAIN acts, resolved \in BOOLEAN : DisconnectSettle(h, resolved)

SpecRefresh == InitTrack /\ [][NextRefresh]_vars

--------------------------------------------------------------------------
(* The tracking loop alone, with two readers that come and go *)

\* the most clicks on the track button
MaxLoopClicks == 1

LoopReaderNames == {"R1", "R2"}

\* the event states the platform reports for a reader it is asked about for
\* the first time: present and in use, unknown, unavailable, ignore
NewEventStates ==
  { {"present", "inuse", "changed"}, {"unknown"}, {"unavailable", "changed"},
    {"ignore"} }

\* the event states the blocking call reports: empty, unknown, unavailable
LoopEventStates ==
  { {"empty", "changed"}, {"unknown"}, {"unavailable", "changed"} }

InitLoop ==
  /\ readerNameToElements = << >>
  /\ readerConnections = << >>
  /\ connections = << >>
  /\ acts = << >>
  /\ clicks = 0
  /\ scardTrackingContext = 0
  /\ readerTrackingAbortion = 0
  /\ trackReadersButton = START_TRACKING_STRING
  /\ refreshReadersButton = FALSE
  /\ readersListElement = ""
  /\ readers \in SUBSET LoopReaderNames
  /\ sessions = << >>

NextLoop ==
  \/ ClickTrackReaders(MaxLoopClicks)
  \/ \E h \in DOMAIN sessions, resolved \in BOOLEAN :
       EstablishContextSettle(h, resolved)
  \/ \E h \in DOMAIN sessions, resolved \in BOOLEAN :
       ListReadersSettle(h, resolved)
  \/ \E h \in DOMAIN sessions, resolved \in BOOLEAN :
       \E eventStates \in [DOMAIN sessions[h].newReaderStatesIn -> NewEventStates] :
         NewReadersStatusSettle(h, resolved, eventStates)
  \/ \E h \in DOMAIN sessions, resolved \in BOOLEAN :
       \E eventStates \in [DOMAIN sessions[h].readerStatesIn -> LoopEventStates] :
         StatusChangeSettle(h, resolved, eventStates)
  \/ \E readerName \in LoopReaderNames : PlatformChange(readerName)

SpecLoop == InitLoop /\ [][NextLoop]_vars

--------------------------------------------------------------------------
(* A connected reader that goes away, while tracking or at a refresh *)

\* the most clicks on the page: a refresh may be any of them, a connect any
\* but the last, and the track button the first one only, so that there is
\* one tracking session at most and no stop request
MaxRemovalClicks == 3

NextRemoval ==
  \/ ClickRefreshReaders(MaxRemovalClicks)
  \/ \E h \in DOMAIN acts, resolved \in BOOLEAN : RefreshListSettle(h, resolved)
  \/ \E h \in DOMAIN acts, resolved \in BOOLEAN : RefreshCleanupSettle(h, resolved)
  \/ clicks = 0 /\ ClickTrackReaders(MaxRemovalClicks)
  \/ \E h \in DOMAIN sessions, resolved \in BOOLEAN :
       EstablishContextSettle(h, resolved)
  \/ \E h \in DOMAIN sessions, resolved \in BOOLEAN :
       ListReadersSettle(h, resolved)
  \/ \E h \in DOMAIN sessions, resolved \in BOOLEAN :
       \E eventStates \in [DOMAIN sessions[h].newReaderStatesIn -> EventStates] :
         NewReadersStatusSettle(h, resolved, eventStates)
  \/ \E h \in DOMAIN sessions, resolved \in BOOLEAN :
       \E eventStates \in [DOMAIN sessions[h].readerStatesIn -> EventStates] :
         StatusChangeSettle(h, resolved, eventStates)
  \/ \E readerName \in ReaderNames : PlatformChange(readerName)
  \/ \E readerName \in ReaderNames : ClickConnect(readerName, MaxRemovalClicks - 1)
  \/ \E h \in DOMAIN acts, outcome \in {"t1", "t0", "rejected"} :
       ConnectSettle(h, outcome, MaxConnections)
  \/ \E h \in DOMAIN acts, resolved \in BOOLEAN : DisconnectSettle(h, resolved)

\* the host settles every disconnect() it was asked for
SpecRemoval ==
  /\ InitTrack
  /\ [][NextRemoval]_vars
  /\ WF_vars(\E h \in DOMAIN acts, resolved \in BOOLEAN :
               DisconnectSettle(h, resolved))
  /\ WF_vars(\E h \in DOMAIN acts, resolved \in BOOLEAN :
               RefreshCleanupSettle(h, resolved))

--------------------------------------------------------------------------
(* The track button with a host that answers *)

\* SpecTrack with a host that settles establishContext, listReaders and the
\* getStatusChange of addNewReaders, and that rejects the blocking
\* getStatusChange once its signal is aborted; the blocking call may stay
\* unanswered as long as it is not aborted
SpecStop ==
  /\ InitTrack
  /\ [][NextTrack]_vars
  /\ WF_vars(\E h \in DOMAIN sessions, resolved \in BOOLEAN :
               EstablishContextSettle(h, resolved))
  /\ WF_vars(\E h \in DOMAIN sessions, resolved \in BOOLEAN :
               ListReadersSettle(h, resolved))
  /\ WF_vars(\E h \in DOMAIN sessions, resolved \in BOOLEAN :
               \E eventStates \in [DOMAIN sessions[h].newReaderStatesIn -> EventStates] :
                 NewReadersStatusSettle(h, resolved, eventStates))
  /\ WF_vars(\E h \in DOMAIN sessions :
               /\ sessions[h].signal = "aborted"
               /\ \E eventStates \in [DOMAIN sessions[h].readerStatesIn -> EventStates] :
                    StatusChangeSettle(h, FALSE, eventStates))

--------------------------------------------------------------------------
(* What was on the wire, read off the activations *)

ReadActs == {h \in DOMAIN acts : acts[h].kind = "read"}

\* the data field and the status bytes of a response buffer (2 bytes or more)
WireData(buffer) == BTake(buffer, BLen(buffer) - 2)
WireSW1(buffer) == BAt(buffer, BLen(buffer) - 2)
WireSW2(buffer) == BAt(buffer, BLen(buffer) - 1)
WireSW(buffer) == WireSW1(buffer) * 256 + WireSW2(buffer)

\* a response with a data field and SW = 0x9000 or SW1 = 0x61
Carries(buffer) ==
  /\ BLen(buffer) > 2
  /\ WireSW(buffer) = 36864 \/ WireSW1(buffer) = 97

\* the responses to GET DATA and GET RESPONSE that activation a received
FetchGot(a) == SubSeq(a.got, 2, Len(a.got))

\* the data fields of the first k of them, in order
RECURSIVE ReceivedUpTo(_, _)
ReceivedUpTo(a, k) ==
  IF k <= 0 THEN << >>
  ELSE BCat(ReceivedUpTo(a, k - 1), WireData(FetchGot(a)[k]))

Received(a) == ReceivedUpTo(a, Len(FetchGot(a)))

\* the outcome of fetchObject when GET DATA is answered by the one response
\* data 90 00
SingleOutcome(data) ==
  LET turn == fetchObjectLoop(Fill(0, MAX_DATA_LENGTH), 0, Reply(data, 144, 0))
  IN  IF turn.next = "return" THEN [ok |-> TRUE, value |-> turn.value]
      ELSE turn.error

--------------------------------------------------------------------------
(* Claims on the object retrieval, under SpecRead *)

\* C1: when every response but the last has SW1 = 0x61 and the last has
\* SW = 0x9000, each with a data field, 70000 bytes at most in all, the outcome
\* of fetchObject is the outcome for the concatenated data fields delivered in
\* one response with SW = 0x9000; so a fetch that has received only responses
\* with SW1 = 0x61 and fewer than 70000 bytes has asked for the next one.
C1_Reassembly ==
  \A h \in ReadActs :
    LET a == acts[h]
        rs == FetchGot(a)
        n == Len(rs)
        total == BLen(Received(a))
    IN  ( /\ n >= 1
          /\ \A k \in 1..n : BLen(rs[k]) > 2
          /\ \A k \in 1..(n - 1) : WireSW1(rs[k]) = 97
          /\ total <= MAX_DATA_LENGTH )
        => /\ WireSW(rs[n]) = 36864 => a.object = SingleOutcome(Received(a))
           /\ WireSW1(rs[n]) = 97 /\ total < MAX_DATA_LENGTH
                => Len(a.sent) = n + 2

\* C2: after every response with SW1 = 0x61 (a data field, the capacity not
\* exceeded), whatever SW2 from 0x00 to 0xFF, the next command transmitted is
\* GET RESPONSE 00 C0 00 00 with Le = SW2.
C2_GetResponseFollows ==
  \A h \in ReadActs :
    \A k \in 1..Len(FetchGot(acts[h])) :
      LET a == acts[h]
          response == FetchGot(a)[k]
      IN  ( /\ BLen(response) > 2
            /\ WireSW1(response) = 97
            /\ BLen(ReceivedUpTo(a, k)) <= MAX_DATA_LENGTH )
          => /\ Len(a.sent) >= k + 2
             /\ a.sent[k + 2] = Lit(<< 0, 192, 0, 0, WireSW2(response) >>)

\* C3: a response whose status word is neither 0x9000 nor 0x61xx makes
\* fetchObject fail with the retrieval error carrying that status word; it is
\* the last response, no command follows it, no bytes are returned.
C3_StatusError ==
  \A h \in ReadActs :
    \A k \in 1..Len(FetchGot(acts[h])) :
      LET a == acts[h]
          response == FetchGot(a)[k]
      IN  ( /\ BLen(response) >= 2
            /\ WireSW(response) # 36864
            /\ WireSW1(response) # 97 )
          => /\ k = Len(FetchGot(a))
             /\ a.object = [ok |-> FALSE, error |-> "Failed to fetch PIV object",
                            sw |-> WireSW(response)]
             /\ a.result = a.object
             /\ Len(a.sent) = k + 1
             /\ a.pc \notin {"select", "fetch"}
             /\ a.disposition = ""

\* C3 witness: a status word 0x6A82 after one response 0x61FF
C3_Witness ==
  \E h \in ReadActs :
    /\ Len(FetchGot(acts[h])) = 2
    /\ WireSW1(FetchGot(acts[h])[1]) = 97
    /\ BLen(FetchGot(acts[h])[2]) >= 2
    /\ WireSW(FetchGot(acts[h])[2]) = 27266
    /\ acts[h].pc = "done"

CapacityError == [ok |-> FALSE,
                  error |-> "GET DATA is larger than MAX_DATA_LENGTH bytes"]

\* C4: the accumulated length never exceeds 70000; the capacity error is
\* raised on the response whose data field brings the total above 70000, on no
\* other response, and a total of exactly 70000 is accepted.
C4_Capacity ==
  \A h \in ReadActs :
    LET a == acts[h]
        rs == FetchGot(a)
        n == Len(rs)
        before == BLen(ReceivedUpTo(a, n - 1))
        after == BLen(Received(a))
    IN  /\ a.dataLength <= MAX_DATA_LENGTH
        /\ a.object = CapacityError => n >= 1 /\ Carries(rs[n])
        /\ n >= 1 /\ Carries(rs[n])
             => /\ before <= MAX_DATA_LENGTH
                /\ a.dataLength = IF after > MAX_DATA_LENGTH THEN before ELSE after
                /\ (a.object = CapacityError) <=> (after > MAX_DATA_LENGTH)

\* C4 witness: 70000 bytes were accepted and the next data field was refused
C4_Witness ==
  \E h \in ReadActs :
    /\ acts[h].dataLength = MAX_DATA_LENGTH
    /\ acts[h].object = CapacityError

\* C5: fetchObject returns a value only when the first accumulated byte is
\* 0x53 and the BER length after it gives valueOffset + length = the number of
\* bytes received; the value is then the received bytes from valueOffset on.
C5_Parse ==
  \A h \in ReadActs :
    LET a == acts[h]
        received == Received(a)
        total == BLen(received)
        span == readLength(BCat(received, Fill(0, MAX_DATA_LENGTH - total)), 1)
    IN  (a.object # << >> /\ a.object.ok)
        => /\ total >= 1
           /\ BAt(received, 0) = 83
           /\ span.ok
           /\ span.valueOffset + span.length = total
           /\ a.object.value = BDrop(received, span.valueOffset)

\* C5 witness: a value of at least one byte returned from two responses
C5_Witness ==
  \E h \in ReadActs :
    /\ Len(FetchGot(acts[h])) = 2
    /\ acts[h].object # << >>
    /\ acts[h].object.ok
    /\ BLen(acts[h].object.value) > 0

\* C6: the first command of a read is SELECT; GET DATA is transmitted only
\* after SELECT was answered with 0x9000; any other status word fails the read
\* with the application selection error and no further command is transmitted.
C6_SelectFirst ==
  \A h \in ReadActs :
    LET a == acts[h] IN
    /\ Len(a.sent) >= 1
         => a.sent[1] = Lit(<< 0, 164, 4, 0, 5, 160, 0, 0, 3, 8 >>)
    /\ \A k \in 2..Len(a.sent) : BAt(a.sent[k], 1) \in {203, 192}
    /\ Len(a.sent) >= 2
         => /\ BLen(a.got[1]) >= 2
            /\ WireSW(a.got[1]) = 36864
            /\ BAt(a.sent[2], 1) = 203
    /\ (Len(a.got) >= 1 /\ BLen(a.got[1]) >= 2 /\ WireSW(a.got[1]) # 36864)
         => /\ a.result = [ok |-> FALSE,
                           error |-> "Failed to select PIV application",
                           sw |-> WireSW(a.got[1])]
            /\ Len(a.sent) = 1
            /\ a.pc \notin {"select", "fetch"}

\* C6 witness: SELECT answered 0x6A82, the read is over
C6_Witness ==
  \E h \in ReadActs :
    /\ Len(acts[h].got) = 1
    /\ BLen(acts[h].got[1]) = 2
    /\ WireSW(acts[h].got[1]) = 27266
    /\ acts[h].pc = "done"

--------------------------------------------------------------------------
(* Claims on the handlers of one reader, under SpecUI *)

\* C7: on any one connection no command is transmitted while an earlier
\* transmit on it still awaits its response, however the Connect, Disconnect
\* and Read Certificate handlers interleave.
C7_OneAtATime ==
  \A c \in DOMAIN connections : Cardinality(Transmitting(c)) <= 1

\* the activation h before a step; one that the step starts has sent nothing
Before(h) ==
  IF h \in DOMAIN acts THEN acts[h]
  ELSE Activation(acts'[h].kind, acts'[h].reader)

\* C8: every transmit of a certificate read happens after the callback of
\* startTransaction has begun and before it has returned or thrown, and all
\* the commands of one read lie in one transaction: a command is sent only in
\* a step that leaves the callback running, a transmit awaits its response
\* only while the callback runs, and the callback begins with nothing sent.
C8_InsideTransaction ==
  [][ \A h \in DOMAIN acts' :
        /\ acts'[h].sent # Before(h).sent
             => /\ acts'[h].transaction = "running"
                /\ Before(h).transaction \in {"requested", "running"}
        /\ acts'[h].pc \in {"select", "fetch"}
             => acts'[h].transaction = "running"
        /\ (acts'[h].transaction = "running" /\ Before(h).transaction # "running")
             => Before(h).transaction = "requested" /\ Before(h).sent = << >>
    ]_vars

\* C8 witness: SELECT, GET DATA and GET RESPONSE sent, the callback running
C8_Witness ==
  \E h \in ReadActs :
    /\ Len(acts[h].sent) = 3
    /\ BAt(acts[h].sent[3], 1) = 192
    /\ acts[h].transaction = "running"

\* the read of activation a failed inside its transaction
FailedInside(a) == a.sent # << >> /\ a.result # << >> /\ ~a.result.ok

\* C9: the transaction body returns "reset" exactly when the read succeeded;
\* when the read failed inside the transaction, the handler has, at its end,
\* disconnected the connection it read on and the map no longer holds that
\* connection, and it has no command outstanding or sent after the failure.
C9_TornDown ==
  \A h \in ReadActs :
    LET a == acts[h] IN
    /\ (a.disposition = "reset") <=> (a.result # << >> /\ a.result.ok)
    /\ FailedInside(a)
         => /\ a.pc \notin {"select", "fetch"}
            /\ Len(a.sent) <= Len(a.got) + 1
    /\ (FailedInside(a) /\ a.pc = "done")
         => /\ connections[a.connection].disconnectCalled
            /\ a.reader \in DOMAIN readerConnections
                 => readerConnections[a.reader] # a.connection

--------------------------------------------------------------------------
(* Claims on the tracking of the readers, under SpecTrack *)

\* C10: a session whose blocking getStatusChange was aborted goes nowhere but
\* to its end, and ends with no error shown; a session that ended on any other
\* rejection or failure has shown its error; so a session has shown an error
\* if and only if it ended and the cause was not the AbortError.
C10_ErrorIffNotAbort ==
  /\ \A h \in DOMAIN sessions :
       LET session == sessions[h] IN
       /\ session.signal = "aborted" => session.pc \in {"getStatusChange", "done"}
       /\ (session.pc = "done" /\ session.signal = "aborted")
            => session.cause = AbortError /\ ~session.shown
       /\ session.shown <=> (session.pc = "done" /\ session.cause # AbortError)
  /\ readersListElement = "Failed start tracking"
       => \E h \in DOMAIN sessions : sessions[h].shown

\* C10 witness: a session ended by the abort, no error on the page
C10_Witness ==
  \E h \in DOMAIN sessions :
    /\ sessions[h].pc = "done"
    /\ sessions[h].signal = "aborted"
    /\ sessions[h].cause = AbortError
    /\ readersListElement # "Failed start tracking"

\* the sessions whose blocking getStatusChange is outstanding
Blocked == {h \in DOMAIN sessions : sessions[h].pc = "getStatusChange"}

\* C11: whenever the loop is about to issue its blocking getStatusChange no
\* controller exists: no session ends on the failed assertion
\* readerTrackingAbortion === undefined, and at most one blocking
\* getStatusChange is outstanding at any time, however the clicks on the
\* track button interleave.
C11_NoTokenAtQuery ==
  /\ \A h \in DOMAIN sessions :
       sessions[h].cause #
         AssertionError("assertion failed: readerTrackingAbortion === undefined")
  /\ Cardinality(Blocked) <= 1

\* the sessions whose listReaders resolves in the step with no new reader, so
\* that the step takes them to the blocking call
Rediscovered ==
  {h \in DOMAIN sessions : /\ sessions[h].pc = "listReaders"
                           /\ sessions'[h].pc = "getStatusChange"}

\* C12: a tracked reader that is absent from the list of readers returned at
\* a Discover step is out of the tracked list, and out of the displayed
\* readers when the session is the only one there has been, before the loop
\* issues its next blocking call.
C12_AbsentDropped ==
  [][\A h \in Rediscovered :
       /\ Names(sessions'[h].readerStatesIn) \ {PNP_NOTIFICATION}
            \subseteq readers
       /\ DOMAIN sessions = {h}
            => DOMAIN readerNameToElements' \subseteq readers]_vars

--------------------------------------------------------------------------
\* the connections that scardContext.connect resolved with on protocol t1 for
\* readerName and that the host still holds open
OpenFor(readerName) ==
  {c \in DOMAIN connections : /\ connections[c].reader = readerName
                              /\ connections[c].protocol = "t1"
                              /\ connections[c].open}

\* C13: for every reader name, at most one connection opened through
\* handleConnect is open at any time, under every interleaving of Connect
\* clicks and pending connect calls.
C13_OneConnection ==
  \A readerName \in {connections[c].reader : c \in DOMAIN connections} :
    Cardinality(OpenFor(readerName)) <= 1

\* the executions of refreshReadersList in progress, and the tracking
\* sessions past the point where they disable the refresh button
Refreshing == {h \in DOMAIN acts : acts[h].kind = "refresh" /\ acts[h].pc # "done"}
Tracking ==
  {h \in DOMAIN sessions :
     sessions[h].pc \in {"listReaders", "newStatus", "getStatusChange"}}

\* C14: a reader-list refresh and a tracking session never run at the same
\* time: while a tracking session is active, no execution of
\* refreshReadersList is in progress.
C14_RefreshOrTrack == Tracking = {} \/ Refreshing = {}

\* C15: the displayed readers never contain the plug-and-play pseudo-reader
\* name, whatever the tracked list holds.
C15_NoPnPDisplayed == PNP_NOTIFICATION \notin DOMAIN readerNameToElements

\* the loop has displayed R1 from a tracked list that holds the pseudo-reader
C15_Witness ==
  \E h \in Blocked :
    /\ {PNP_NOTIFICATION, "R1"} \subseteq Names(sessions[h].readerStatesIn)
    /\ "R1" \in DOMAIN readerNameToElements

\* no handler is in flight
Quiescent == \A h \in DOMAIN acts : acts[h].pc = "done"

\* the certificate reads that ended with the certificate displayed
ReadOK == {h \in ReadActs : acts[h].pc = "done" /\ acts[h].transaction = "resolved"
                              /\ acts[h].errorMessage = ""}

\* C16: whenever no handler is in flight, for every displayed reader the
\* Connect button is disabled exactly when the reader has a connection in
\* readerConnections, and the Disconnect and Read Certificate buttons are
\* enabled exactly when it has one; a certificate read that succeeded, with
\* no disconnect and no cleanup having run, leaves the reader connected.
C16_ButtonsFollowMap ==
  Quiescent =>
    /\ \A readerName \in DOMAIN readerNameToElements :
         readerNameToElements[readerName] =
           IF readerName \in DOMAIN readerConnections THEN Connected
           ELSE Disconnected
    /\ \A h \in ReadOK :
         (\A g \in DOMAIN acts : acts[g].kind = "connect" \/ g \in ReadOK)
           => /\ acts[h].reader \in DOMAIN readerConnections
              /\ readerNameToElements[acts[h].reader] = Connected

\* nothing is in flight after a certificate read that succeeded on a reader
\* that is still connected
C16_Witness ==
  /\ Quiescent
  /\ \E h \in ReadOK : /\ acts[h].reader \in DOMAIN readerConnections
                        /\ \A g \in DOMAIN acts :
                             acts[g].kind = "connect" \/ g \in ReadOK

\* the executions of handleDisconnect that complete in the step
Disconnecting ==
  {h \in DOMAIN acts' :
     /\ acts'[h].kind = "disconnect"
     /\ acts'[h].pc = "done"
     /\ h \in DOMAIN acts => acts[h].pc # "done"}

\* C17: when handleDisconnect completes, the reader has no connection in
\* readerConnections and its buttons show the disconnected state, whether
\* disconnect() resolved or rejected.
C17_DisconnectedAfter ==
  [][\A h \in Disconnecting :
       /\ acts'[h].reader \notin DOMAIN readerConnections'
       /\ readerNameToElements'[acts'[h].reader] = Disconnected]_vars

\* handleDisconnect has completed after disconnect() rejected: the host still
\* holds the connection open
C17_Witness ==
  \E h \in DOMAIN acts :
    /\ acts[h].kind = "disconnect"
    /\ acts[h].pc = "done"
    /\ acts[h].cleaned # 0
    /\ connections[acts[h].cleaned].open
    /\ acts[h].reader \notin DOMAIN readerConnections

\* the executions of handleConnect whose scardContext.connect settles in the
\* step
Connecting ==
  {h \in DOMAIN acts : /\ acts[h].kind = "connect"
                       /\ acts[h].pc = "connect"
                       /\ acts'[h].pc = "done"}

\* C18: readerConnections records for a reader only connections that connect
\* resolved with active protocol t1 for it; when connect rejects or resolves
\* with another protocol, handleConnect records no connection and reports an
\* error; when it resolves with t1, handleConnect records the connection.
C18_RecordedOnlyT1 ==
  /\ [](\A readerName \in DOMAIN readerConnections :
          /\ connections[readerConnections[readerName]].protocol = "t1"
          /\ connections[readerConnections[readerName]].reader = readerName)
  /\ [][\A h \in Connecting :
          LET c == acts'[h].connection IN
          IF c # 0 /\ connections'[c].protocol = "t1"
          THEN /\ readerConnections' =
                    MapSet(readerConnections, acts[h].reader, c)
               /\ acts'[h].errorMessage = ""
          ELSE /\ readerConnections' = readerConnections
               /\ acts'[h].errorMessage = "Connection failed"]_vars

\* connect has resolved with protocol t0 for a reader that stays without a
\* recorded connection, and the error is reported
C18_Witness ==
  \E h \in DOMAIN acts :
    /\ acts[h].kind = "connect"
    /\ acts[h].pc = "done"
    /\ acts[h].connection # 0
    /\ connections[acts[h].connection].protocol = "t0"
    /\ acts[h].errorMessage = "Connection failed"
    /\ acts[h].reader \notin DOMAIN readerConnections

\* The scan of an object from offset i over its complete entries with a
\* one-byte length: the value of the first one with tag 0x70, or none.  It
\* decides nothing when it meets the tag 0x70 at an entry that is cut short,
\* or a length byte of 0x80 or more.
RECURSIVE FirstCertificate(_, _)
FirstCertificate(object, i) ==
  IF i >= BLen(object) THEN [decided |-> TRUE, found |-> FALSE]
  ELSE LET tag == BAt(object, i)
           complete == /\ i + 1 < BLen(object)
                       /\ BAt(object, i + 1) < 128
                       /\ i + 2 + BAt(object, i + 1) <= BLen(object)
       IN  IF i + 1 < BLen(object) /\ BAt(object, i + 1) >= 128
           THEN [decided |-> FALSE]
           ELSE IF ~complete
           THEN IF tag = Certificate THEN [decided |-> FALSE]
                ELSE [decided |-> TRUE, found |-> FALSE]
           ELSE IF tag = Certificate
           THEN [decided |-> TRUE, found |-> TRUE,
                 value |-> BTake(BDrop(object, i + 2), BAt(object, i + 1))]
           ELSE FirstCertificate(object, i + 2 + BAt(object, i + 1))

\* C19: a certificate read whose fetched object is empty fails with an error
\* and returns no certificate; otherwise it returns the value of the first
\* top-level entry with tag 0x70 of the object, and fails when the object has
\* no such entry.
C19_Certificate ==
  \A h \in ReadActs :
    LET a == acts[h] IN
    (a.object # << >> /\ a.object.ok) =>
      LET first == FirstCertificate(a.object.value, 0) IN
      IF BLen(a.object.value) = 0
      THEN a.result =
             Throw("Card does not have a X.509 Certificate for Card Authentication.")
      ELSE first.decided =>
             IF first.found THEN a.result = [ok |-> TRUE, value |-> first.value]
             ELSE ~a.result.ok

\* the object 01 00 70 01 01 was fetched and the read returned 01, the value
\* of its second entry
C19_Witness ==
  \E h \in ReadActs :
    /\ acts[h].object = [ok |-> TRUE, value |-> Lit(<< 1, 0, 112, 1, 1 >>)]
    /\ acts[h].result = [ok |-> TRUE, value |-> Lit(<< 1 >>)]

\* the calls of serializeCommand that are over
Serialized == {h \in DOMAIN acts : acts[h].kind = "serialize" /\ acts[h].pc = "done"}

\* C20: for a command with data of at most 255 bytes and Ne absent or in
\* 1..255, serializeCommand outputs CLA, INS, then P1 and P2 or the 2-byte
\* parameter high byte first, then Lc = the data length and the data when
\* data is present, then Le = Ne when Ne is present, and nothing else.
C20_Serialized ==
  \A h \in Serialized :
    LET apdu == acts[h].command
        hasData == "data" \in DOMAIN apdu
        hasNe == "ne" \in DOMAIN apdu
        n == IF hasData THEN BLen(apdu.data) ELSE 0
        out == acts[h].result
    IN  (n <= 255 /\ (hasNe => apdu.ne \in 1..255)) =>
          /\ out.ok
          /\ BLen(out.buffer) = 4 + (IF hasData THEN 1 + n ELSE 0)
                                  + (IF hasNe THEN 1 ELSE 0)
          /\ BAt(out.buffer, 0) = apdu.cla
          /\ BAt(out.buffer, 1) = apdu.ins
          /\ IF "p1" \in DOMAIN apdu
             THEN BAt(out.buffer, 2) = apdu.p1 /\ BAt(out.buffer, 3) = apdu.p2
             ELSE BAt(out.buffer, 2) * 256 + BAt(out.buffer, 3) = apdu.p
          /\ hasData => /\ BAt(out.buffer, 4) = n
                         /\ BTake(BDrop(out.buffer, 5), n) = apdu.data
          /\ hasNe => BAt(out.buffer, BLen(out.buffer) - 1) = apdu.ne

\* the command 00 CB 3FFF with the data 01 02 03 and Ne = 255 is serialized
\* as 00 CB 3F FF 03 01 02 03 FF
C20_Witness ==
  \E h \in Serialized :
    /\ acts[h].command = [cla |-> 0, ins |-> GetData, p |-> CurrentDF,
                          data |-> Lit(<< 1, 2, 3 >>), ne |-> 255]
    /\ acts[h].result =
         [ok |-> TRUE,
          buffer |-> Lit(<< 0, 203, 63, 255, 3, 1, 2, 3, 255 >>)]

\* C21: serializeCommand rejects every command whose data is longer than 255
\* bytes or whose Ne is greater than 255: it returns no buffer for it.
C21_FramingRejected ==
  \A h \in Serialized :
    LET apdu == acts[h].command IN
    (\/ "data" \in DOMAIN apdu /\ BLen(apdu.data) > 255
     \/ "ne" \in DOMAIN apdu /\ apdu.ne > 255)
      => ~acts[h].result.ok

\* the calls of deserializeResponse that are over
Deserialized ==
  {h \in DOMAIN acts : acts[h].kind = "deserialize" /\ acts[h].pc = "done"}

\* C22: deserializeResponse fails for every input shorter than 2 bytes; for
\* an input of n >= 2 bytes it returns SW1 = byte n-2, SW2 = byte n-1,
\* SW = SW1 * 256 + SW2 and data = the first n-2 bytes, with data absent
\* exactly when n = 2.
C22_Deserialized ==
  \A h \in Deserialized :
    LET buffer == acts[h].got[1]
        n == BLen(buffer)
        out == acts[h].result
    IN  IF n < 2 THEN ~out.ok
        ELSE /\ out.ok
             /\ out.sw1 = BAt(buffer, n - 2)
             /\ out.sw2 = BAt(buffer, n - 1)
             /\ out.sw = out.sw1 * 256 + out.sw2
             /\ "data" \in DOMAIN out <=> n # 2
             /\ n # 2 => out.data = BTake(buffer, n - 2)

\* the response 00 FF 61 90 gives the data 00 FF and SW = 0x6190
C22_Witness ==
  \E h \in Deserialized :
    /\ acts[h].got[1] = Lit(<< 0, 255, 97, 144 >>)
    /\ acts[h].result = [ok |-> TRUE, data |-> Lit(<< 0, 255 >>),
                         sw |-> 24976, sw1 |-> 97, sw2 |-> 144]

\* the calls of readLength that are over
LengthRead ==
  {h \in DOMAIN acts : acts[h].kind = "readLength" /\ acts[h].pc = "done"}

\* the k-th base-256 digit of n >= 0, counted from the lowest
RECURSIVE Digit(_, _)
Digit(n, k) == IF k = 0 THEN n % 256 ELSE Digit(n \div 256, k - 1)

\* n is the big-endian number in the size bytes of bytes from offset i
BigEndian(n, bytes, i, size) ==
  /\ n >= 0
  /\ \A k \in 0..(size - 1) : Digit(n, k) = BAt(bytes, i + size - 1 - k)
  /\ Digit(n, size) = 0

\* C23: readLength at an offset whose byte is b returns length b and
\* valueOffset = offset + 1 when b < 128; the buffer size - (offset + 1) - 2
\* and valueOffset = offset + 1 when b = 128; and when b > 128 and the
\* b - 128 following bytes are in the buffer, their big-endian number and
\* valueOffset = offset + 1 + (b - 128).
C23_ReadLength ==
  \A h \in LengthRead :
    LET bytes == acts[h].command.bytes
        offset == acts[h].command.bytesOffset
        b == BAt(bytes, offset)
        out == acts[h].result
    IN  IF b < 128
        THEN out = [ok |-> TRUE, length |-> b, valueOffset |-> offset + 1]
        ELSE IF b = 128
        THEN out = [ok |-> TRUE, length |-> BLen(bytes) - (offset + 1) - 2,
                    valueOffset |-> offset + 1]
        ELSE offset + 1 + (b - 128) <= BLen(bytes)
               => /\ out.ok
                  /\ BigEndian(out.length, bytes, offset + 1, b - 128)
                  /\ out.valueOffset = offset + 1 + (b - 128)

\* C24: when readLength returns a result, the length is not negative and
\* valueOffset + length does not exceed the buffer size.
C24_WithinBuffer ==
  \A h \in LengthRead :
    acts[h].result.ok =>
      /\ acts[h].result.length >= 0
      /\ acts[h].result.valueOffset + acts[h].result.length
           <= BLen(acts[h].command.bytes)

\* the calls of getValue on a buffer made of entries that are over
ValueGot ==
  {h \in DOMAIN acts : /\ acts[h].kind = "getValue"
                       /\ acts[h].pc = "done"
                       /\ "entries" \in DOMAIN acts[h].command}

\* the indexes of the entries with the tag
Tagged(entries, tag) == {k \in DOMAIN entries : entries[k].tag = tag}

\* C25: for a buffer made of consecutive definite-length entries with 1-byte
\* tags that fill it, getValue returns the value of the first entry with the
\* target tag, whatever entries come before it, and fails with the not-found
\* error exactly when no entry has the tag.
C25_FirstEntry ==
  \A h \in ValueGot :
    LET entries == acts[h].command.entries
        tagged == Tagged(entries, acts[h].command.tag)
    IN  IF tagged = {}
        THEN acts[h].result = Throw("Could not find tag")
        ELSE LET first == CHOOSE k \in tagged : \A j \in tagged : k <= j IN
             acts[h].result = [ok |-> TRUE, value |-> Lit(entries[first].form.value)]

\* getValue for tag 70 on 01 01 70, 01 82 00 02 01 70, 70 81 01 01 returned
\* 01: the third entry, after two values that hold the byte 70
C25_Witness ==
  \E h \in ValueGot :
    /\ acts[h].command.tag = Certificate
    /\ acts[h].command.buffer =
         Lit(<< 1, 1, 112, 1, 130, 0, 2, 1, 112, 112, 129, 1, 1 >>)
    /\ acts[h].result = [ok |-> TRUE, value |-> Lit(<< 1 >>)]

\* the calls of fetchObject and of selectPIVApplication that have run
Fetching == {h \in DOMAIN acts : acts[h].kind = "fetchObject" /\ acts[h].pc # "start"}
Selecting ==
  {h \in DOMAIN acts : acts[h].kind = "selectPIVApplication" /\ acts[h].pc # "start"}

\* the bytes of a tag of size bytes, high byte first
TagBytes(objectTag, size) ==
  [k \in 1..size |-> Digit(objectTag, size - k)]

\* C26: for an object tag of 1, 2 or 3 bytes the first command of fetchObject
\* is 00 CB 3F FF, Lc = tag size + 2, 5C, tag size, the tag bytes high byte
\* first, and no Le; the command of selectPIVApplication is
\* 00 A4 04 00 05 A0 00 00 03 08.
C26_FirstCommands ==
  /\ \A h \in Fetching :
       LET objectTag == acts[h].object
           size == IF objectTag < 256 THEN 1
                   ELSE IF objectTag < 65536 THEN 2 ELSE 3
       IN  (0 < objectTag /\ objectTag < 16777216) =>
             /\ acts[h].pc = "fetch"
             /\ acts[h].sent =
                  << Lit(<< 0, 203, 63, 255, size + 2, 92, size >>
                           \o TagBytes(objectTag, size)) >>
  /\ \A h \in Selecting :
       acts[h].sent = << Lit(<< 0, 164, 4, 0, 5, 160, 0, 0, 3, 8 >>) >>

\* fetchObject for the tag 0x5FC101 has transmitted 00 CB 3F FF 05 5C 03 5F C1 01
C26_Witness ==
  \E h \in Fetching :
    /\ acts[h].object = 6275329
    /\ acts[h].sent = << Lit(<< 0, 203, 63, 255, 5, 92, 3, 95, 193, 1 >>) >>

--------------------------------------------------------------------------
(* Claims on the end of the continuation loop, under SpecRead *)

\* the outcome of the parse step on the data fields accumulated so far
ParseOutcome(data) ==
  parseObject(set(Fill(0, MAX_DATA_LENGTH), data, 0), BLen(data))

\* C27: every response with SW = 0x9000 (the capacity not exceeded) is the
\* last one, no command follows it, and the outcome of fetchObject is the
\* outcome of the parse step on the data fields accumulated so far, also when
\* the response carries no data bytes; a last response with SW = 0x9000 or
\* SW1 = 0x61 leaves fetchObject with neither the status error nor the
\* missing-data error of the loop.
C27_SuccessEndsLoop ==
  \A h \in ReadActs :
    \A k \in 1..Len(FetchGot(acts[h])) :
      LET a == acts[h]
          response == FetchGot(a)[k]
          sofar == ReceivedUpTo(a, k)
      IN  (BLen(response) >= 2 /\ BLen(sofar) <= MAX_DATA_LENGTH) =>
            /\ WireSW(response) = 36864 =>
                 /\ k = Len(FetchGot(a))
                 /\ Len(a.sent) = k + 1
                 /\ a.object = ParseOutcome(sofar)
            /\ ( /\ k = Len(FetchGot(a))
                 /\ WireSW(response) = 36864 \/ WireSW1(response) = 97 ) =>
                 /\ a.object # Throw("GET DATA response has no data")
                 /\ a.object #
                      ThrowSW("Failed to fetch PIV object", WireSW(response))

\* the certificate reads whose callback returned the certificate
Succeeded ==
  {h \in ReadActs : acts[h].result # << >> /\ acts[h].result.ok}

\* C28: a certificate read that succeeded has transmitted 2 + k commands,
\* k the number of responses with SW1 = 0x61 it received: SELECT, GET DATA,
\* then one GET RESPONSE (00 C0 00 00, Le = SW2) after each of them in order;
\* the response with SW = 0x9000 is the last and no command follows it.
C28_CommandSequence ==
  \A h \in Succeeded :
    LET a == acts[h]
        rs == FetchGot(a)
        n == Len(rs)
        continued == {j \in 1..n : WireSW1(rs[j]) = 97}
        k == Cardinality(continued)
    IN  /\ n = k + 1
        /\ continued = 1..k
        /\ WireSW(rs[n]) = 36864
        /\ Len(a.sent) = 2 + k
        /\ a.sent[1] = Lit(<< 0, 164, 4, 0, 5, 160, 0, 0, 3, 8 >>)
        /\ a.sent[2] = Lit(<< 0, 203, 63, 255, 5, 92, 3, 95, 193, 1 >>)
        /\ \A j \in 1..k :
             a.sent[j + 2] = Lit(<< 0, 192, 0, 0, WireSW2(rs[j]) >>)
        /\ a.pc \notin {"select", "fetch"}

\* C28 witness: a read that succeeded after two responses with SW1 = 0x61,
\* four commands in all
C28_Witness ==
  \E h \in Succeeded :
    /\ Len(FetchGot(acts[h])) = 3
    /\ Len(acts[h].sent) = 4
    /\ acts[h].pc = "done"

--------------------------------------------------------------------------
(* Claims on the steps of the tracking loop, under SpecLoop *)

\* the reader names of a list of states, in the order of the list
NamesOf(states) == [i \in DOMAIN states |-> states[i].readerName]

\* the names that a report gives as unknown or unavailable
Gone(readerStatesOut) ==
  {readerStatesOut[i].readerName : i \in
     {j \in DOMAIN readerStatesOut :
        readerStatesOut[j].eventState \cap {"unknown", "unavailable"} # {}}}

RECURSIVE Without(_, _)
Without(names, gone) ==
  IF names = << >> THEN << >>
  ELSE IF Head(names) \in gone THEN Without(Tail(names), gone)
  ELSE << Head(names) >> \o Without(Tail(names), gone)

\* the tracked list before and after the reports were applied to it
Applied(before, readerStatesOut, after) ==
  LET gone == Gone(readerStatesOut) IN
  /\ Names(after) \cap gone = {}
  /\ \A i \in DOMAIN readerStatesOut :
       readerStatesOut[i].readerName \notin gone =>
         \E j \in DOMAIN after :
           after[j] =
             [readerName |-> readerStatesOut[i].readerName,
              currentState |-> readerStatesOut[i].eventState \cap
                                 {"empty", "present", "exclusive", "inuse", "mute"},
              currentCount |-> readerStatesOut[i].eventCount]
  /\ \A i \in DOMAIN before :
       before[i].readerName \notin Names(readerStatesOut) =>
         \E j \in DOMAIN after : after[j] = before[i]
  /\ NamesOf(after) = Without(NamesOf(before), gone)

\* the reports on the tracked entries that eventStates has an event state
\* for, in the order of the list
RECURSIVE Picked(_, _, _)
Picked(readerStatesIn, eventStates, i) ==
  IF i > Len(readerStatesIn) THEN << >>
  ELSE IF i \in DOMAIN eventStates
  THEN ReaderStatesOut(<< readerStatesIn[i] >>, << eventStates[i] >>)
         \o Picked(readerStatesIn, eventStates, i + 1)
  ELSE Picked(readerStatesIn, eventStates, i + 1)

\* C29: the Apply step leaves no reader that was reported unknown or
\* unavailable in the tracked list, gives the entry of every other reported
\* reader the five reported flags (a missing one false) and the reported event
\* count, and leaves the entries of the readers that were not reported, and
\* the order of the entries that remain, as they were: for updateReaderStatesIn
\* on every report about some of the tracked readers, and for the step of
\* the loop that the resolution of the blocking getStatusChange takes.
C29_Applied ==
  /\ [](\A h \in Blocked :
          \A picked \in SUBSET DOMAIN sessions[h].readerStatesIn :
            \A eventStates \in [picked -> LoopEventStates] :
              LET before == sessions[h].readerStatesIn
                  readerStatesOut == Picked(before, eventStates, 1)
                  updated == updateReaderStatesIn(before, readerStatesOut)
              IN  /\ updated.ok
                  /\ Applied(before, readerStatesOut, updated.readerStatesIn))
  /\ [][\A h \in Blocked :
          sessions'[h].pc = "listReaders" =>
            \E eventStates \in [DOMAIN sessions[h].readerStatesIn -> LoopEventStates] :
              /\ Applied(sessions[h].readerStatesIn,
                         ReaderStatesOut(sessions[h].readerStatesIn, eventStates),
                         sessions'[h].readerStatesIn)
              /\ StatusChangeSettle(h, TRUE, eventStates)]_vars

\* C29 witness: R1 and R2 are displayed, and the session is back at
\* listReaders after its blocking call with the pseudo-reader and R2 tracked
\* in that order, both with the flags and the count of the report "empty"
C29_Witness ==
  \E h \in DOMAIN sessions :
    /\ sessions[h].pc = "listReaders"
    /\ DOMAIN readerNameToElements = {"R1", "R2"}
    /\ sessions[h].readerStatesIn =
         << [readerName |-> PNP_NOTIFICATION, currentState |-> {"empty"},
             currentCount |-> 0],
            [readerName |-> "R2", currentState |-> {"empty"},
             currentCount |-> 0] >>

\* the sessions whose addNewReaders awaits its getStatusChange
Querying == {h \in DOMAIN sessions : sessions[h].pc = "newStatus"}

\* the names that a report gives as ignore, unknown or unavailable
Refused(readerStatesOut) ==
  {readerStatesOut[i].readerName : i \in
     {j \in DOMAIN readerStatesOut :
        readerStatesOut[j].eventState \cap
          {"ignore", "unknown", "unavailable"} # {}}}

\* the tracked list before and after the new readers of a report were pushed
Pushed(before, readerStatesOut, after) ==
  /\ Len(after) >= Len(before)
  /\ SubSeq(after, 1, Len(before)) = before
  /\ SubSeq(NamesOf(after), Len(before) + 1, Len(after)) =
       Without(NamesOf(readerStatesOut), Refused(readerStatesOut))

\* C30: when listReaders resolves, the names it returned that are not in the
\* tracked list are queried, each once and with the state unaware, in one
\* getStatusChange that has no abort signal, and nothing is queried when there
\* is no such name; when that getStatusChange resolves, the queried readers
\* whose reported state has none of ignore, unknown, unavailable are appended
\* to the tracked list, and no other.
C30_Discovered ==
  /\ [](\A h \in Querying :
          LET queried == sessions[h].newReaderStatesIn IN
          /\ queried # << >>
          /\ sessions[h].signal = "none"
          /\ readerTrackingAbortion # h
          /\ \A i \in DOMAIN queried :
               /\ queried[i].readerName \notin Names(sessions[h].readerStatesIn)
               /\ queried[i].currentState = {"unaware"}
               /\ \A j \in DOMAIN queried :
                    queried[j].readerName = queried[i].readerName => j = i
          /\ \A eventStates \in [DOMAIN queried -> NewEventStates] :
               Pushed(sessions[h].readerStatesIn,
                      ReaderStatesOut(queried, eventStates),
                      pushNewReaders(sessions[h].readerStatesIn,
                                     ReaderStatesOut(queried, eventStates))))
  /\ [][\A h \in {i \in DOMAIN sessions : sessions'[i] # sessions[i]} :
          /\ ListReadersSettle(h, TRUE) =>
               LET new == readers \ Names(sessions[h].readerStatesIn) IN
               /\ new = {} => h \notin Querying'
               /\ new # {} =>
                    /\ h \in Querying'
                    /\ Names(sessions'[h].newReaderStatesIn) = new
                    /\ sessions'[h].readerStatesIn = sessions[h].readerStatesIn
                    /\ readerTrackingAbortion' = readerTrackingAbortion
          /\ (h \in Querying /\ sessions'[h].pc = "getStatusChange") =>
               \E eventStates \in
                   [DOMAIN sessions[h].newReaderStatesIn -> NewEventStates] :
                 /\ Pushed(sessions[h].readerStatesIn,
                           ReaderStatesOut(sessions[h].newReaderStatesIn, eventStates),
                           sessions'[h].readerStatesIn)
                 /\ NewReadersStatusSettle(h, TRUE, eventStates)]_vars

\* C30 witness: R1 is tracked and displayed, R1 and R2 are plugged in, and
\* the query of addNewReaders is outstanding for R2 alone
C30_Witness ==
  \E h \in Querying :
    /\ readers = {"R1", "R2"}
    /\ NamesOf(sessions[h].readerStatesIn) = << PNP_NOTIFICATION, "R1" >>
    /\ sessions[h].newReaderStatesIn =
         << [readerName |-> "R2", currentState |-> {"unaware"}] >>

--------------------------------------------------------------------------
\* the sessions inside the loop of startTrackingReaders
Looping ==
  {h \in DOMAIN sessions :
     sessions[h].pc \in {"listReaders", "newStatus", "getStatusChange"}}

\* C31: throughout a tracking session the tracked list holds exactly one
\* entry of the pseudo-reader, so that every blocking getStatusChange of
\* the session asks about it, whatever the platform reported before.
C31_PseudoReaderTracked ==
  \A h \in Looping :
    Cardinality({i \in DOMAIN sessions[h].readerStatesIn :
                   sessions[h].readerStatesIn[i].readerName = PNP_NOTIFICATION}) = 1

--------------------------------------------------------------------------
(* Claims on the readers that go away, under SpecRemoval *)

\* the connections that the map holds
Mapped == {readerConnections[r] : r \in DOMAIN readerConnections}

\* the cleanups of connection c started because its reader went away, with
\* disconnect() not settled yet
Removing(c) ==
  {h \in DOMAIN acts :
     /\ acts[h].pc = "disconnect"
     /\ acts[h].cleaned = c
     /\ acts[h].errorMessage \in {"Reader removed from system.",
                                  "Reader no longer listed."}}

\* the displayed readers with a connection that the step takes out of the
\* tracked list of a session going on to its blocking call, or that a
\* refresh finds no longer listed
Disappearing ==
  {r \in DOMAIN readerNameToElements \cap DOMAIN readerConnections :
     \/ \E h \in DOMAIN sessions :
          /\ sessions[h].pc \in {"listReaders", "newStatus"}
          /\ sessions'[h].pc = "getStatusChange"
          /\ r \notin Names(sessions'[h].readerStatesIn)
     \/ \E h \in DOMAIN acts :
          /\ acts[h].kind = "refresh"
          /\ acts[h].pc = "listReaders"
          /\ acts'[h].pc # "listReaders"
          /\ readersListElement' # "Failed to list readers"
          /\ r \notin readers}

\* C32: a displayed reader with a connection that leaves the tracked list,
\* or that a refresh finds no longer listed, has disconnect() called on its
\* connection in that step and loses its elements in that step or when the
\* disconnect settles; and every connection so cleaned up is eventually out
\* of the map with its disconnect() settled.
C32_RemovedAndDisconnected ==
  /\ [][\A r \in Disappearing :
          LET c == readerConnections[r] IN
          /\ connections'[c].disconnectCalled
          /\ Removing(c)' # {}
          /\ r \in DOMAIN readerNameToElements' =>
               \E h \in Removing(c)' : acts'[h].kind = "refresh"]_vars
  /\ [][\A h \in DOMAIN acts :
          ( /\ h \in Removing(acts[h].cleaned)
            /\ acts[h].kind = "refresh"
            /\ acts'[h].pc # "disconnect" ) =>
            acts[h].reader \notin DOMAIN readerNameToElements']_vars
  /\ \A c \in 1..MaxConnections :
       (Removing(c) # {}) ~> (Removing(c) = {} /\ c \notin Mapped)

\* C32 witness: the cleanup of a connection whose reader left the tracked
\* list is over: the reader is not displayed, its connection is closed and
\* out of the map
C32_Witness ==
  \E h \in DOMAIN acts :
    /\ acts[h].kind = "cleanup"
    /\ acts[h].errorMessage = "Reader removed from system."
    /\ acts[h].pc = "done"
    /\ ~connections[acts[h].cleaned].open
    /\ acts[h].cleaned \notin Mapped
    /\ acts[h].reader \notin DOMAIN readerNameToElements

--------------------------------------------------------------------------
\* C33: serializeCommand throws "Command Ne cannot be 0" and returns no
\* buffer when Ne is 0; for every command with Ne absent or not 0 it returns
\* a buffer of 4 bytes, plus 1 + the data length when data is present, plus 1
\* when Ne is present, so that its assertion i === apduSize never fails.
C33_NeZeroRejected ==
  \A h \in Serialized :
    LET apdu == acts[h].command
        out == acts[h].result
    IN  IF "ne" \in DOMAIN apdu /\ apdu.ne = 0
        THEN out = [ok |-> FALSE, error |-> "Command Ne cannot be 0"]
        ELSE /\ out.ok
             /\ DOMAIN out = {"ok", "buffer"}
             /\ BLen(out.buffer) =
                  4 + (IF "data" \in DOMAIN apdu THEN 1 + BLen(apdu.data) ELSE 0)
                    + (IF "ne" \in DOMAIN apdu THEN 1 ELSE 0)

\* C33 witness: the command 00 CB 3FFF with the data 01 02 03 and Ne = 0 was
\* refused
C33_Witness ==
  \E h \in Serialized :
    /\ acts[h].command = [cla |-> 0, ins |-> GetData, p |-> CurrentDF,
                          data |-> Lit(<< 1, 2, 3 >>), ne |-> 0]
    /\ ~acts[h].result.ok

--------------------------------------------------------------------------
(* Claims on the track button, under SpecStop *)

\* the second click was on the track button while the one session there is
\* was in its loop: a stop request for that session
StopRequested ==
  /\ clicks = 2
  /\ acts = << >>
  /\ Len(sessions) = 1

\* C34: a stop request issued while the session is in its loop, in its
\* Discover step as well as in its blocking call, eventually ends the
\* session, with a host that answers its calls and honours abort.
C34_StopEndsSession ==
  StopRequested ~> (\A h \in DOMAIN sessions : sessions[h].pc = "done")

\* C35: at most one execution of startTrackingReaders is inside its loop at
\* any time, however the clicks on the track button interleave, also when
\* they come while establishContext is pending.
C35_OneSession == Cardinality(Looping) <= 1

--------------------------------------------------------------------------
\* the calls of getValue on a buffer of arbitrary bytes that are over
Scanned ==
  {h \in DOMAIN acts : /\ acts[h].kind = "getValue"
                       /\ acts[h].pc = "done"
                       /\ "entries" \notin DOMAIN acts[h].command}

\* C36: getValue returns or throws on every buffer and tag: its scan never
\* comes back to an offset it has been at, also when a length byte is 0x80
\* or the last entry is cut short.
C36_ScanTerminates ==
  \A h \in Scanned :
    acts[h].result # [ok |-> FALSE, error |-> "never returns"]

--------------------------------------------------------------------------
(* Claims on the connections of one reader, under SpecReconnect and
   SpecUI *)

\* C37: the connection that a failed certificate read disconnects and takes
\* out of the map is the one the read ran on, never one opened later for the
\* same reader.
C37_OwnConnection ==
  \A h \in ReadActs :
    acts[h].cleaned # 0 => acts[h].cleaned = acts[h].connection


\* the connection handles that connect has returned to a handleConnect
Handles ==
  {acts[h].connection : h \in {g \in DOMAIN acts : acts[g].kind = "connect"
                                                    /\ acts[g].pc = "done"}}
    \ {0}

\* C38: every connection handle that connect returned to handleConnect is in
\* readerConnections or has had its disconnect called; none is left open
\* outside the map.
C38_StoredOrDisconnected ==
  \A c \in Handles :
    \/ \E readerName \in DOMAIN readerConnections :
         readerConnections[readerName] = c
    \/ connections[c].disconnectCalled


--------------------------------------------------------------------------
(* Claims on the connections of the readers that come and go, under
   SpecRefresh *)

\* no execution of a handler and no tracking session is in progress
AtRest ==
  /\ Quiescent
  /\ \A h \in DOMAIN sessions : sessions[h].pc = "done"

\* C39: whenever no handler is in flight, every reader name with a connection
\* in readerConnections is a displayed reader, also when the reader was
\* removed while a connect for it was pending.
C39_MappedIsDisplayed ==
  AtRest => DOMAIN readerConnections \subseteq DOMAIN readerNameToElements


--------------------------------------------------------------------------
(* Claims on the working buffer of fetchObject, under SpecRead *)

\* the certificate reads whose loop ended on a response with data bytes and
\* SW = 0x9000, the capacity not exceeded: their fetchObject ended in the
\* parse step
Parsed ==
  {h \in ReadActs :
     LET got == FetchGot(acts[h]) IN
     /\ got # << >>
     /\ BLen(got[Len(got)]) > 2
     /\ WireSW(got[Len(got)]) = 36864
     /\ BLen(Received(acts[h])) <= MAX_DATA_LENGTH}

\* the parse step on a buffer that holds exactly the received bytes
ParseExactly(data) == parseObject(data, BLen(data))

\* C40: the outcome of fetchObject, accepted or rejected and the bytes
\* returned, is the outcome of the parse step on a buffer that holds exactly
\* the received bytes; the tail of the 70000-byte working buffer has no
\* influence.
C40_TailIgnored ==
  \A h \in Parsed :
    LET exact == ParseExactly(Received(acts[h])) IN
    /\ acts[h].object.ok = exact.ok
    /\ exact.ok => acts[h].object.value = exact.value

============================================================================
